---- MODULE Spec2Model ----
(***************************************************************************)
(* The encrypted manifest store of src/lib/manifest.ts, with the key       *)
(* derivation of src/lib/crypto.ts it depends on.                          *)
(*                                                                         *)
(* One browser tab (module memory + sessionStorage) talks to one bucket.   *)
(* Every exported function of manifest.ts is an operator from the state s  *)
(* it is called in and its inputs to its outcome: how it ends, what it     *)
(* returns, the transfers it issued and the state it leaves.  An action    *)
(* is one call run to completion (operations are issued serially), except  *)
(* in SpecOverlap, where a mutation is split at its upload to show what    *)
(* calls issued without awaiting do, and in SpecSync and SpecLock, where   *)
(* syncManifest and unlockManifest are split at their awaits as well.      *)
(* SpecFolders builds folder trees from the empty manifest, and SpecPage   *)
(* is the files page with its settings dialog and ManifestUnlock.          *)
(* AES-GCM, HKDF and JSON are modelled symbolically: a sealed blob is the  *)
(* triple nonce || ciphertext || tag, and a JSON text is the document with *)
(* the properties whose value is undefined dropped.                        *)
(*                                                                         *)
(* The key backup of crypto.ts (exportKeyPair, importKeyPair) is modelled  *)
(* beside it: the file the user holds and what the last import made of it. *)
(*                                                                         *)
(* The module runs in a browser (sessionStorage is defined).  The notes    *)
(* cache that lockManifest also clears (notes.ts) is no part of the model. *)
(* A call reads the clock once: the readings of new Date() within one call *)
(* agree.  The definitions named "faulty" or "variant" are not the code:   *)
(* they stand next to the definition they would replace, to show that the  *)
(* properties tell the code from them.                                     *)
(***************************************************************************)
EXTENDS Integers, Sequences, FiniteSets, TLC

VARIABLES
    manifestCache,   \* manifest.ts:39   let manifestCache: Manifest | null
    masterKeyCache,  \* manifest.ts:40   let masterKeyCache: CryptoKey | null
    sessionStorage,  \* the tab's sessionStorage (item name -> item)
    storage,         \* the bucket: object key -> stored bytes
    clock,           \* the wall clock read by new Date()
    uuidSeq,         \* how many crypto.randomUUID() values were drawn
    peer,            \* a second tab on the same bucket: its module memory
                     \* and its sessionStorage
    backup,          \* the key backup file the user holds (crypto.ts) and
                     \* what the last import made of it
    inFlight,        \* the mutations whose upload has not completed yet,
                     \* when calls are issued without awaiting the last
    page,            \* the files page with its settings dialog and its
                     \* ManifestUnlock component, when it is rendered
    ghost            \* history of the calls, for the properties about it

vars == <<manifestCache, masterKeyCache, sessionStorage, storage, clock,
          uuidSeq, peer, page, backup, inFlight, ghost>>

----------------------------------------------------------------------------
(* Bounds of the model *)

\* The last reading of the clock
MaxClock == 1
\* How many mutation calls may change the state
MaxChanges == 1
\* How many mutations are started when calls are issued without awaiting
MaxOverlap == 2

----------------------------------------------------------------------------
(* Program constants *)

MANIFEST_KEY == ".manifest.enc"
SESSION_CACHE_KEY == "manifest_cache"
SESSION_UNLOCKED_KEY == "manifest_unlocked"

\* JavaScript's null and undefined
NULL == [null |-> TRUE]
Undefined == "undefined"

\* The outcomes the transport can have besides the object's presence
IOOutcomes == {"ok", "TransportError"}

----------------------------------------------------------------------------
(* crypto.ts: key derivation *)

\* The private keys a user may type, as hex text.  Hex digits are read
\* without regard to case, so "0a" and "0A" are the same key.
PrivateKeys == {"0a", "0A", "0b"}

\* Buffer.from(privateKeyHex, 'hex')
HexToBytes(hex) ==
    CASE hex \in {"0a", "0A"} -> <<10>>
      [] hex = "0b" -> <<11>>

\* A faulty derivation that feeds HKDF the hex text instead of the bytes it
\* spells: the same key typed in another case gives another master key
deriveFromHexText(privateKeyHex) ==
    [alg |-> "AES-GCM",
     hkdf |-> [ikm |-> privateKeyHex, salt |-> <<0>>,
               info |-> "manifest-encryption", hash |-> "SHA-256"]]

\* A faulty derivation that does not depend on the private key
deriveFixedKey(privateKeyHex) ==
    [alg |-> "AES-GCM",
     hkdf |-> [ikm |-> <<>>, salt |-> <<0>>,
               info |-> "manifest-encryption", hash |-> "SHA-256"]]

\* HKDF-SHA256 with the zero salt and the fixed info, producing an AES-GCM key
deriveManifestKeyFromPrivateKey(privateKeyHex) ==
    [alg |-> "AES-GCM",
     hkdf |-> [ikm |-> HexToBytes(privateKeyHex), salt |-> <<0>>,
               info |-> "manifest-encryption", hash |-> "SHA-256"]]

----------------------------------------------------------------------------
(* JSON *)

\* The properties a record may carry with the value undefined
OptionalFields == {"folderId", "parentId", "color"}

\* JSON.stringify of one object: a property whose value is undefined is left out
StripUndefined(obj) ==
    [p \in {q \in DOMAIN obj : ~(q \in OptionalFields /\ obj[q] = Undefined)}
        |-> obj[p]]

StripAll(list) == [i \in 1..Len(list) |-> StripUndefined(list[i])]

\* JSON.stringify(manifest): the text, represented by the document it spells
JSONstringify(manifest) ==
    [text |-> [version |-> manifest.version,
               files |-> StripAll(manifest.files),
               folders |-> StripAll(manifest.folders),
               createdAt |-> manifest.createdAt,
               updatedAt |-> manifest.updatedAt]]

\* JSON.parse(text)
JSONparse(json) == json.text

\* obj.p in JavaScript: undefined when the property is missing
Prop(obj, p) == IF p \in DOMAIN obj THEN obj[p] ELSE Undefined

\* obj.p = v in JavaScript: adds the property when it is missing
SetProp(obj, p, v) ==
    [q \in DOMAIN obj \cup {p} |-> IF q = p THEN v ELSE obj[q]]

\* Two manifests hold the same document (every property reads the same)
SameManifest(m1, m2) ==
    /\ m1 # NULL
    /\ m2 # NULL
    /\ JSONstringify(m1) = JSONstringify(m2)

----------------------------------------------------------------------------
(* AES-GCM, symbolically *)

\* The 12-byte nonces crypto.getRandomValues may return
Nonces == {1}

\* The authentication tag of a ciphertext under a key and a nonce
GcmTag(key, iv, ct) == [k |-> key, n |-> iv, ct |-> ct, flipped |-> FALSE]

\* crypto.subtle.encrypt({name: "AES-GCM", iv}, key, data)
GcmEncrypt(key, iv, data) == [k |-> key, n |-> iv, pt |-> data]

\* The bytes that are no encryption of any JSON text
Garbage == [text |-> NULL]

\* What the counter-mode keystream of (key, iv) makes of a ciphertext
GcmKeystream(key, iv, ct) ==
    IF ct.k = key /\ ct.n = iv THEN ct.pt ELSE Garbage

\* A faulty encryptManifest that hands the JSON text over as it is
storeManifestPlain(manifest, masterKey, iv) == JSONstringify(manifest)

\* encryptManifest: iv || ciphertext || tag
encryptManifest(manifest, masterKey, iv) ==
    LET ct == GcmEncrypt(masterKey, iv, JSONstringify(manifest))
    IN  [iv |-> iv, ct |-> ct, tag |-> GcmTag(masterKey, iv, ct)]

\* A faulty decryption that does not check the tag
GcmNoTagCheck(encryptedData, masterKey) == TRUE

\* The tag check of crypto.subtle.decrypt
GcmVerify(encryptedData, masterKey) ==
    encryptedData.tag = GcmTag(masterKey, encryptedData.iv, encryptedData.ct)

\* decryptManifest: the manifest, or the error it raises
decryptManifest(encryptedData, masterKey) ==
    IF ~GcmVerify(encryptedData, masterKey)
    THEN [err |-> "AuthenticationFailure"]
    ELSE LET data == GcmKeystream(masterKey, encryptedData.iv, encryptedData.ct)
         IN  IF data = Garbage
             THEN [err |-> "SyntaxError"]
             ELSE [err |-> "none", manifest |-> JSONparse(data)]

----------------------------------------------------------------------------
(* crypto.ts: the key backup *)

\* The key pairs generateKeyPair may have returned, as hex text
KeyPairs ==
    {[privateKey |-> k, publicKey |-> "pub:" \o k] : k \in {"0a", "0b"}}

\* The passwords a user may type, and what a caller may pass as the
\* optional argument password: nothing, the empty text, or a password
Passwords == {"pw", "other"}
PasswordArgs == {Undefined, ""} \cup Passwords

\* The 16-byte salts crypto.getRandomValues may return
Salts == {1, 2}

\* if (password): undefined and the empty text are falsy
Given(password) == password \notin {Undefined, ""}

\* Buffer.from(bytes).toString('hex')
BytesToHex(bytes) == [hex |-> bytes]

\* Buffer.from(text, 'hex') of a text that Buffer.toString('hex') wrote
HexDecode(text) == text.hex

\* A faulty key derivation that does not depend on the password
Pbkdf2AnyPassword(password, salt) ==
    [alg |-> "AES-GCM",
     pbkdf2 |-> [password |-> "", salt |-> salt, hash |-> "SHA-256"]]

\* PBKDF2-SHA256 of the password with the salt (100000 iterations),
\* producing an AES-GCM key
Pbkdf2(password, salt) ==
    [alg |-> "AES-GCM",
     pbkdf2 |-> [password |-> password, salt |-> salt, hash |-> "SHA-256"]]

\* exportKeyPair(privateKey, publicKey, password), salt and iv being what
\* crypto.getRandomValues returns: the JSON text, represented by the
\* document it spells
exportKeyPair(privateKey, publicKey, password, salt, iv) ==
    LET keyData == [privateKey |-> privateKey, publicKey |-> publicKey]
        derivedKey == Pbkdf2(password, salt)
        ct == GcmEncrypt(derivedKey, iv, [text |-> keyData])
        encryptedData == [ct |-> ct, tag |-> GcmTag(derivedKey, iv, ct)]
    IN  IF Given(password)
        THEN [text |-> [encrypted |-> TRUE, salt |-> BytesToHex(salt),
                        iv |-> BytesToHex(iv),
                        data |-> BytesToHex(encryptedData)]]
        ELSE [text |-> keyData]

\* The errors importKeyPair ends with
WrongPassword == "Failed to decrypt keys. Wrong password?"
InvalidFormat == "Invalid key file format"

\* keyData.p is truthy
Has(keyData, p) == p \in DOMAIN keyData /\ keyData[p] \notin {Undefined, ""}

\* importKeyPair(jsonContent, password): how it ends, and the pair it
\* returns.  Buffer.from(undefined, 'hex') raises a TypeError.
importKeyPair(jsonContent, password) ==
    LET keyData == jsonContent.text
        throw(err) == [res |-> "throw", err |-> err, ret |-> NULL]
        salt == HexDecode(keyData.salt)
        iv == HexDecode(keyData.iv)
        encryptedData == HexDecode(keyData.data)
        derivedKey == Pbkdf2(password, salt)
        sealed == [iv |-> iv, ct |-> encryptedData.ct,
                   tag |-> encryptedData.tag]
        decrypted == GcmKeystream(derivedKey, iv, encryptedData.ct)
    IN  IF "encrypted" \in DOMAIN keyData /\ keyData.encrypted
           /\ Given(password)
        THEN IF ~({"salt", "iv", "data"} \subseteq DOMAIN keyData)
             THEN throw("TypeError")
             ELSE IF ~GcmVerify(sealed, derivedKey) \/ decrypted = Garbage
             THEN throw(WrongPassword)
             ELSE [res |-> "ok", err |-> "none", ret |-> decrypted.text]
        ELSE IF Has(keyData, "privateKey") /\ Has(keyData, "publicKey")
        THEN [res |-> "ok", err |-> "none",
              ret |-> [privateKey |-> keyData.privateKey,
                       publicKey |-> keyData.publicKey]]
        ELSE throw(InvalidFormat)

\* No backup file has been written
NoBackup ==
    [file |-> NULL, pair |-> NULL, password |-> Undefined, intact |-> FALSE,
     result |-> NULL]

----------------------------------------------------------------------------

(* The bucket and the session storage *)

\* downloadFromStorage(config, key) under a transport outcome
downloadFromStorage(store, key, io) ==
    IF io # "ok" THEN [err |-> io]
    ELSE IF key \notin DOMAIN store THEN [err |-> "NotFound"]
    ELSE [err |-> "none", data |-> store[key]]

\* The bucket after uploadToStorage(config, key, data) succeeded
Uploaded(store, key, data) ==
    [k \in DOMAIN store \cup {key} |-> IF k = key THEN data ELSE store[k]]

\* sessionStorage.getItem
getItem(ss, name) == IF name \in DOMAIN ss THEN ss[name] ELSE NULL

\* sessionStorage.setItem
setItem(ss, name, value) ==
    [k \in DOMAIN ss \cup {name} |-> IF k = name THEN value ELSE ss[k]]

\* sessionStorage.removeItem
removeItem(ss, name) == [k \in DOMAIN ss \ {name} |-> ss[k]]

\* saveToSessionCache
saveToSessionCache(ss, manifest) ==
    setItem(ss, SESSION_CACHE_KEY, JSONstringify(manifest))

\* loadFromSessionCache
loadFromSessionCache(ss) ==
    LET cached == getItem(ss, SESSION_CACHE_KEY)
    IN  IF cached # NULL THEN JSONparse(cached) ELSE NULL

----------------------------------------------------------------------------
(* The clock *)

\* new Date() reads the variable clock, in milliseconds.  The clock moves
\* between calls (action Tick), not within one: calls that follow each
\* other within a millisecond read the same value.

\* createEmptyManifest
createEmptyManifest(now) ==
    [version |-> 1, files |-> <<>>, folders |-> <<>>,
     createdAt |-> now, updatedAt |-> now]

----------------------------------------------------------------------------
(* States and outcomes *)

\* The tab and the bucket as they are
Here ==
    [manifestCache |-> manifestCache, masterKeyCache |-> masterKeyCache,
     sessionStorage |-> sessionStorage, storage |-> storage,
     clock |-> clock, uuidSeq |-> uuidSeq]

\* The call returns ret, having caught err ("none" when nothing was raised)
Return(ret, err, gets, puts, after) ==
    [res |-> "ok", err |-> err, ret |-> ret, gets |-> gets, puts |-> puts,
     after |-> after]

\* The call rejects with err
Raise(err, gets, puts, after) ==
    [res |-> "throw", err |-> err, ret |-> NULL, gets |-> gets,
     puts |-> puts, after |-> after]

----------------------------------------------------------------------------
(* Lifecycle *)

\* isManifestUnlocked()
isManifestUnlocked(s) ==
    /\ getItem(s.sessionStorage, SESSION_UNLOCKED_KEY) = [str |-> "true"]
    /\ s.manifestCache # NULL

\* getMasterKey()
getMasterKey(s) == s.masterKeyCache

\* The session storage once the manifest is cached and flagged unlocked
UnlockedSession(ss, manifest) ==
    setItem(saveToSessionCache(ss, manifest), SESSION_UNLOCKED_KEY,
            [str |-> "true"])

\* manifestExists(config)
manifestExists(s, io) ==
    LET dl == downloadFromStorage(s.storage, MANIFEST_KEY, io)
    IN  Return(dl.err = "none", dl.err, 1, 0, s)

\* A variant of initializeManifest that refuses to overwrite a manifest
initializeUnlessExists(s, privateKeyHex, iv, io) ==
    LET masterKey == deriveManifestKeyFromPrivateKey(privateKeyHex)
        manifest == createEmptyManifest(s.clock)
    IN  IF MANIFEST_KEY \in DOMAIN s.storage \/ io # "ok"
        THEN Raise(IF io # "ok" THEN io ELSE "AlreadyExists", 1, 0, s)
        ELSE Return(NULL, "none", 1, 1,
                 [s EXCEPT
                    !.storage = Uploaded(@, MANIFEST_KEY,
                                    encryptManifest(manifest, masterKey, iv)),
                    !.manifestCache = manifest,
                    !.masterKeyCache = masterKey,
                    !.sessionStorage = UnlockedSession(@, manifest)])

\* initializeManifest(config, privateKeyHex)
initializeManifest(s, privateKeyHex, iv, io) ==
    LET masterKey == deriveManifestKeyFromPrivateKey(privateKeyHex)
        manifest == createEmptyManifest(s.clock)
        encryptedManifest == encryptManifest(manifest, masterKey, iv)
    IN  IF io # "ok" THEN Raise(io, 0, 1, s)
        ELSE Return(NULL, "none", 0, 1,
                 [s EXCEPT
                    !.storage = Uploaded(@, MANIFEST_KEY, encryptedManifest),
                    !.manifestCache = manifest,
                    !.masterKeyCache = masterKey,
                    !.sessionStorage = UnlockedSession(@, manifest)])

\* A faulty unlockManifest that caches the derived key before the download
\* and leaves it cached when the download or the decryption fails
unlockCachingKeyFirst(s, privateKeyHex, io) ==
    LET masterKey == deriveManifestKeyFromPrivateKey(privateKeyHex)
        dl == downloadFromStorage(s.storage, MANIFEST_KEY, io)
        dec == IF dl.err = "none" THEN decryptManifest(dl.data, masterKey)
               ELSE dl
    IN  IF dec.err # "none"
        THEN Raise(dec.err, 1, 0, [s EXCEPT !.masterKeyCache = masterKey])
        ELSE Return(dec.manifest, "none", 1, 0,
                 [s EXCEPT
                    !.manifestCache = dec.manifest,
                    !.masterKeyCache = masterKey,
                    !.sessionStorage = UnlockedSession(@, dec.manifest)])

\* unlockManifest(config, privateKeyHex)
unlockManifest(s, privateKeyHex, io) ==
    LET masterKey == deriveManifestKeyFromPrivateKey(privateKeyHex)
        dl == downloadFromStorage(s.storage, MANIFEST_KEY, io)
        dec == IF dl.err = "none" THEN decryptManifest(dl.data, masterKey)
               ELSE dl
    IN  IF dec.err # "none" THEN Raise(dec.err, 1, 0, s)
        ELSE Return(dec.manifest, "none", 1, 0,
                 [s EXCEPT
                    !.manifestCache = dec.manifest,
                    !.masterKeyCache = masterKey,
                    !.sessionStorage = UnlockedSession(@, dec.manifest)])

\* A faulty syncManifest that lets the error of the download or of the
\* decryption through to its caller
syncManifestRaising(s, io) ==
    IF s.masterKeyCache = NULL THEN Return(NULL, "none", 0, 0, s)
    ELSE LET dl == downloadFromStorage(s.storage, MANIFEST_KEY, io)
             dec == IF dl.err = "none"
                    THEN decryptManifest(dl.data, s.masterKeyCache)
                    ELSE dl
         IN  IF dec.err # "none" THEN Raise(dec.err, 1, 0, s)
             ELSE Return(dec.manifest, "none", 1, 0,
                      [s EXCEPT
                         !.manifestCache = dec.manifest,
                         !.sessionStorage =
                             saveToSessionCache(@, dec.manifest)])

\* syncManifest(config)
syncManifest(s, io) ==
    IF s.masterKeyCache = NULL THEN Return(NULL, "none", 0, 0, s)
    ELSE LET dl == downloadFromStorage(s.storage, MANIFEST_KEY, io)
             dec == IF dl.err = "none"
                    THEN decryptManifest(dl.data, s.masterKeyCache)
                    ELSE dl
         IN  IF dec.err # "none" THEN Return(NULL, dec.err, 1, 0, s)
             ELSE Return(dec.manifest, "none", 1, 0,
                      [s EXCEPT
                         !.manifestCache = dec.manifest,
                         !.sessionStorage =
                             saveToSessionCache(@, dec.manifest)])

\* A faulty lockManifest that clears the session storage and leaves the
\* module's memory as it is
lockKeepsMemory(s) ==
    Return(NULL, "none", 0, 0,
        [s EXCEPT
           !.sessionStorage = removeItem(removeItem(@, SESSION_CACHE_KEY),
                                         SESSION_UNLOCKED_KEY)])

\* A faulty lockManifest that leaves the manifest copy in the session storage
lockKeepsSessionCache(s) ==
    Return(NULL, "none", 0, 0,
        [s EXCEPT
           !.manifestCache = NULL,
           !.masterKeyCache = NULL,
           !.sessionStorage = removeItem(@, SESSION_UNLOCKED_KEY)])

\* A faulty lockManifest that clears the manifest and the session storage
\* and leaves the master key in memory
lockKeepsMasterKey(s) ==
    Return(NULL, "none", 0, 0,
        [s EXCEPT
           !.manifestCache = NULL,
           !.sessionStorage = removeItem(removeItem(@, SESSION_CACHE_KEY),
                                         SESSION_UNLOCKED_KEY)])

\* lockManifest()
lockManifest(s) ==
    Return(NULL, "none", 0, 0,
        [s EXCEPT
           !.manifestCache = NULL,
           !.masterKeyCache = NULL,
           !.sessionStorage = removeItem(removeItem(@, SESSION_CACHE_KEY),
                                         SESSION_UNLOCKED_KEY)])

\* getManifest()
getManifest(s) ==
    IF s.manifestCache # NULL THEN Return(s.manifestCache, "none", 0, 0, s)
    ELSE LET cached == loadFromSessionCache(s.sessionStorage)
         IN  IF cached # NULL
             THEN Return(cached, "none", 0, 0,
                         [s EXCEPT !.manifestCache = cached])
             ELSE Return(NULL, "none", 0, 0, s)

\* The page is reloaded in the same tab: the module's memory starts anew
\* (lines 39-40) and the session storage survives.
Reloaded(s) == [s EXCEPT !.manifestCache = NULL, !.masterKeyCache = NULL]

----------------------------------------------------------------------------
(* Mutations: what each makes of the in-memory manifest *)

\* A faulty crypto.randomUUID() that draws the same value every time
UuidReused(n) == "u1"

\* crypto.randomUUID(): the n-th value drawn
Uuid(n) == "u" \o ToString(n)

\* The object key of a file's content
FileKey(fileId) == "files/" \o fileId

\* files.find(f => f.fileId === fileId): its index, 0 when there is none
FindFile(files, fileId) ==
    LET hits == {i \in 1..Len(files) : files[i].fileId = fileId}
    IN  IF hits = {} THEN 0 ELSE CHOOSE i \in hits : \A j \in hits : i <= j

\* folders.find(f => f.id === folderId)
FindFolder(folders, folderId) ==
    LET hits == {i \in 1..Len(folders) : folders[i].id = folderId}
    IN  IF hits = {} THEN 0 ELSE CHOOSE i \in hits : \A j \in hits : i <= j

\* The elements of a list
Range(list) == {list[i] : i \in 1..Len(list)}

\* A faulty stamp that leaves updatedAt as it is
Untouched(manifest, now) == manifest

\* manifestCache.updatedAt = new Date().toISOString()
Touch(manifest, now) == [manifest EXCEPT !.updatedAt = now]

\* A faulty addFileToManifest that gives the new entry the key and the nonce
\* of the first file of the manifest
AddedFileSharingKey(manifest, fileInfo, now) ==
    LET shared == IF manifest.files = <<>> THEN fileInfo
                  ELSE [fileInfo EXCEPT !.key = manifest.files[1].key,
                                        !.nonce = manifest.files[1].nonce]
    IN  [manifest EXCEPT !.files = Append(@, shared), !.updatedAt = now]

\* addFileToManifest, lines 257-258
AddedFile(manifest, fileInfo, now) ==
    Touch([manifest EXCEPT !.files = Append(@, fileInfo)], now)

\* A faulty removal that drops every file of the manifest
RemovedEveryFile(manifest, idsSet, now) ==
    [manifest EXCEPT !.files = <<>>, !.updatedAt = now]

\* removeFilesFromManifest, lines 298-302 (removeFileFromManifest, 278-279,
\* with the one id)
RemovedFiles(manifest, idsSet, now) ==
    LET keep(f) == f.fileId \notin idsSet
    IN  Touch([manifest EXCEPT !.files = SelectSeq(@, keep)], now)

\* !file.isFavorite
NotFavorite(file) == ~("isFavorite" \in DOMAIN file /\ file.isFavorite)

\* A faulty toggle that marks the file as a favorite whatever it was
MarkedFavorite(manifest, i, now) ==
    [manifest EXCEPT !.files[i] = SetProp(@, "isFavorite", TRUE),
                     !.updatedAt = now]

\* toggleFileFavorite, lines 328-329, for the file at index i
ToggledFavorite(manifest, i, now) ==
    Touch([manifest EXCEPT !.files[i] =
               SetProp(@, "isFavorite", NotFavorite(@))], now)

\* createFolder, lines 359-372
CreatedFolder(manifest, folder, now) ==
    Touch([manifest EXCEPT !.folders = Append(@, folder)], now)

\* moveFileToFolder, lines 421-422, for the file at index i
MovedFile(manifest, i, folderId, now) ==
    Touch([manifest EXCEPT !.files[i] = SetProp(@, "folderId", folderId)], now)

\* moveFilesToFolder, lines 439-445
MovedFiles(manifest, idsSet, folderId, now) ==
    Touch([manifest EXCEPT !.files =
               [i \in 1..Len(@) |->
                   IF @[i].fileId \in idsSet
                   THEN SetProp(@[i], "folderId", folderId)
                   ELSE @[i]]], now)

\* A faulty deleteFolder that removes the files of the folder whatever
\* deleteContents says
DeletedFolderWithContents(manifest, folderId, deleteContents, now) ==
    LET outside(f) == Prop(f, "folderId") # folderId
        other(g) == g.id # folderId
    IN  [manifest EXCEPT !.files = SelectSeq(@, outside),
                         !.folders = SelectSeq(@, other),
                         !.updatedAt = now]

\* deleteFolder, lines 463-481
DeletedFolder(manifest, folderId, deleteContents, now) ==
    LET outside(f) == Prop(f, "folderId") # folderId
        other(g) == g.id # folderId
        files == IF deleteContents
                 THEN SelectSeq(manifest.files, outside)
                 ELSE [i \in 1..Len(manifest.files) |->
                          IF Prop(manifest.files[i], "folderId") = folderId
                          THEN SetProp(manifest.files[i], "folderId", Undefined)
                          ELSE manifest.files[i]]
    IN  Touch([manifest EXCEPT !.files = files,
                               !.folders = SelectSeq(@, other)], now)

\* A faulty deleteFolder that reports no removed file
DeletedNoFileIds(manifest, folderId, deleteContents) == <<>>

\* deleteFolder's result: the ids of the files it removed
DeletedFileIds(manifest, folderId, deleteContents) ==
    LET inside(f) == Prop(f, "folderId") = folderId
        filesInFolder == SelectSeq(manifest.files, inside)
    IN  IF deleteContents
        THEN [i \in 1..Len(filesInFolder) |-> filesInFolder[i].fileId]
        ELSE <<>>

\* renameFolder, lines 505-506, for the folder at index i
RenamedFolder(manifest, i, newName, now) ==
    Touch([manifest EXCEPT !.folders[i].name = newName], now)

\* A faulty renameFile that gives the new name to every file
RenamedEveryFile(manifest, i, newName, now) ==
    Touch([manifest EXCEPT !.files =
               [j \in 1..Len(@) |-> [@[j] EXCEPT !.fileName = newName]]], now)

\* renameFile, lines 528-529, for the file at index i
RenamedFile(manifest, i, newName, now) ==
    Touch([manifest EXCEPT !.files[i].fileName = newName], now)

\* fileName.lastIndexOf('.'), 1-based; 0 when there is no dot
LastDot(fileName) ==
    LET dots == {i \in 1..Len(fileName) : fileName[i] = "."}
    IN  IF dots = {} THEN 0 ELSE CHOOSE i \in dots : \A j \in dots : j <= i

CopySuffix == <<" ", "(", "c", "o", "p", "y", ")">>

\* A faulty addCopySuffix that appends the suffix after the extension
addCopySuffixAtEnd(fileName) == fileName \o CopySuffix

\* addCopySuffix
addCopySuffix(fileName) ==
    LET lastDot == LastDot(fileName)
    IN  IF lastDot = 0 THEN fileName \o CopySuffix
        ELSE SubSeq(fileName, 1, lastDot - 1) \o CopySuffix
             \o SubSeq(fileName, lastDot, Len(fileName))

\* A faulty copy whose entry keeps the fileId of the original
CopiedFileKeepingId(originalFile, newFileId, targetFolderId, now) ==
    [p \in DOMAIN originalFile \cup {"folderId"} |->
        CASE p = "folderId" -> targetFolderId
          [] p = "uploadedAt" -> now
          [] p = "fileName" ->
                IF targetFolderId = Prop(originalFile, "folderId")
                THEN originalFile.fileName \o CopySuffix
                ELSE originalFile.fileName
          [] OTHER -> originalFile[p]]

\* copyFilesToFolder, lines 565-574: the entry of the copy
CopiedFile(originalFile, newFileId, targetFolderId, now) ==
    [p \in DOMAIN originalFile \cup {"folderId"} |->
        CASE p = "fileId" -> newFileId
          [] p = "folderId" -> targetFolderId
          [] p = "uploadedAt" -> now
          [] p = "fileName" ->
                IF targetFolderId = Prop(originalFile, "folderId")
                THEN addCopySuffix(originalFile.fileName)
                ELSE originalFile.fileName
          [] OTHER -> originalFile[p]]

\* copyFilesToFolder, lines 551-580: the loop over fileIds, from the state
\* st = [files, store, seq, newFileIds, gets, puts, err, n, total, copied,
\* reports], n counting the items already gone through and reports listing
\* the calls of onProgress made so far.  fail = [at, op] names the item whose
\* download (op "get") or upload (op "put") the transport fails, at = 0 for
\* none; the copies made read the clock at now.  The loop stops at the
\* first error.
RECURSIVE CopyLoop(_, _, _, _, _)
CopyLoop(fileIds, targetFolderId, fail, now, st) ==
    IF fileIds = <<>> \/ st.err # "none" THEN st
    ELSE
      LET fileId == Head(fileIds)
          i == FindFile(st.files, fileId)
          failed(op) == fail.at = st.n + 1 /\ fail.op = op
          encryptedData ==
              IF failed("get") THEN [err |-> "TransportError"]
              ELSE IF FileKey(fileId) \notin DOMAIN st.store
                   THEN [err |-> "NotFound"]
                   ELSE [err |-> "none", data |-> st.store[FileKey(fileId)]]
          newFileId == Uuid(st.seq + 1)
          next ==
              IF i = 0 THEN [st EXCEPT !.n = @ + 1]
              ELSE IF encryptedData.err # "none"
              THEN [st EXCEPT !.err = encryptedData.err, !.gets = @ + 1]
              ELSE IF failed("put")
              THEN [st EXCEPT !.err = "TransportError", !.gets = @ + 1,
                              !.puts = @ + 1, !.seq = @ + 1]
              ELSE [st EXCEPT
                      !.store = Uploaded(@, FileKey(newFileId),
                                         encryptedData.data),
                      !.files = Append(@, CopiedFile(st.files[i], newFileId,
                                                     targetFolderId, now)),
                      !.newFileIds = Append(@, newFileId),
                      !.copied = @ + 1,
                      !.reports = Append(@, <<st.copied + 1, st.total>>),
                      !.seq = @ + 1, !.n = @ + 1,
                      !.gets = @ + 1, !.puts = @ + 1]
      IN  CopyLoop(Tail(fileIds), targetFolderId, fail, now, next)

----------------------------------------------------------------------------
(* Mutations: the calls *)

\* if (!manifestCache || !masterKeyCache)
NotUnlocked(s) == s.manifestCache = NULL \/ s.masterKeyCache = NULL

\* A variant of the tail that writes only over the manifest it started from:
\* it rejects when the stored manifest is not the one in memory before the
\* change (a version check on updatedAt)
PersistIfCurrent(s, manifest, ret, iv, io) ==
    LET changed == [s EXCEPT !.manifestCache = manifest]
        dl == downloadFromStorage(s.storage, MANIFEST_KEY, "ok")
        dec == IF dl.err = "none"
               THEN decryptManifest(dl.data, s.masterKeyCache) ELSE dl
        current == IF dec.err # "none" THEN FALSE
                   ELSE dec.manifest.updatedAt = s.manifestCache.updatedAt
                        /\ Len(dec.manifest.files) = Len(s.manifestCache.files)
    IN  IF io # "ok" THEN Raise(io, 1, 1, changed)
        ELSE IF ~current THEN Raise("Conflict", 1, 0, s)
        ELSE Return(ret, "none", 1, 1,
                 [changed EXCEPT
                    !.storage = Uploaded(@, MANIFEST_KEY,
                                    encryptManifest(manifest,
                                                    s.masterKeyCache, iv)),
                    !.sessionStorage = saveToSessionCache(@, manifest)])

\* The tail of every mutation: the in-memory manifest has been changed in
\* place; it is sealed and uploaded, and then saved to the session cache.
\* A failed upload rejects and leaves the change in memory.
Persist(s, manifest, ret, iv, io) ==
    LET changed == [s EXCEPT !.manifestCache = manifest]
    IN  IF io # "ok" THEN Raise(io, 0, 1, changed)
        ELSE Return(ret, "none", 0, 1,
                 [changed EXCEPT
                    !.storage = Uploaded(@, MANIFEST_KEY,
                                    encryptManifest(manifest,
                                                    s.masterKeyCache, iv)),
                    !.sessionStorage = saveToSessionCache(@, manifest)])

\* getFileFromManifest(fileId)
getFileFromManifest(s, fileId) ==
    LET got == getManifest(s)
        manifest == got.ret
        i == IF manifest = NULL THEN 0 ELSE FindFile(manifest.files, fileId)
    IN  Return(IF i = 0 THEN NULL ELSE manifest.files[i], "none", 0, 0,
               got.after)

\* A faulty getFoldersInFolder that returns the folders of every parent
getFoldersOfAnyParent(s, parentId) ==
    LET got == getManifest(s)
    IN  Return(IF got.ret = NULL THEN <<>> ELSE got.ret.folders, "none", 0, 0,
               got.after)

\* getFoldersInFolder(parentId)
getFoldersInFolder(s, parentId) ==
    LET got == getManifest(s)
        manifest == got.ret
        child(f) == Prop(f, "parentId") = parentId
    IN  Return(IF manifest = NULL THEN <<>>
               ELSE SelectSeq(manifest.folders, child), "none", 0, 0,
               got.after)

\* addFileToManifest(config, fileInfo)
addFileToManifest(s, fileInfo, iv, io) ==
    IF NotUnlocked(s) THEN Raise("StateError", 0, 0, s)
    ELSE Persist(s, AddedFile(s.manifestCache, fileInfo, s.clock), NULL, iv, io)

\* removeFileFromManifest(config, fileId)
removeFileFromManifest(s, fileId, iv, io) ==
    IF NotUnlocked(s) THEN Raise("StateError", 0, 0, s)
    ELSE Persist(s, RemovedFiles(s.manifestCache, {fileId}, s.clock), NULL,
                 iv, io)

\* removeFilesFromManifest(config, fileIds)
removeFilesFromManifest(s, fileIds, iv, io) ==
    IF NotUnlocked(s) THEN Raise("StateError", 0, 0, s)
    ELSE Persist(s, RemovedFiles(s.manifestCache, Range(fileIds), s.clock),
                 NULL, iv, io)

\* toggleFileFavorite(config, fileId)
toggleFileFavorite(s, fileId, iv, io) ==
    IF NotUnlocked(s) THEN Raise("StateError", 0, 0, s)
    ELSE LET i == FindFile(s.manifestCache.files, fileId)
         IN  IF i = 0 THEN Raise("NotFound", 0, 0, s)
             ELSE Persist(s, ToggledFavorite(s.manifestCache, i, s.clock),
                          NotFavorite(s.manifestCache.files[i]), iv, io)

\* createFolder(config, name, parentId, color)
createFolder(s, name, parentId, color, iv, io) ==
    IF NotUnlocked(s) THEN Raise("StateError", 0, 0, s)
    ELSE LET folder == [id |-> Uuid(s.uuidSeq + 1), name |-> name,
                        parentId |-> parentId, createdAt |-> s.clock,
                        color |-> color]
         IN  Persist([s EXCEPT !.uuidSeq = @ + 1],
                     CreatedFolder(s.manifestCache, folder, s.clock), folder,
                     iv, io)

\* moveFileToFolder(config, fileId, folderId)
moveFileToFolder(s, fileId, folderId, iv, io) ==
    IF NotUnlocked(s) THEN Raise("StateError", 0, 0, s)
    ELSE LET i == FindFile(s.manifestCache.files, fileId)
         IN  IF i = 0 THEN Raise("NotFound", 0, 0, s)
             ELSE Persist(s, MovedFile(s.manifestCache, i, folderId, s.clock),
                          NULL, iv, io)

\* moveFilesToFolder(config, fileIds, folderId)
moveFilesToFolder(s, fileIds, folderId, iv, io) ==
    IF NotUnlocked(s) THEN Raise("StateError", 0, 0, s)
    ELSE Persist(s, MovedFiles(s.manifestCache, Range(fileIds), folderId,
                               s.clock), NULL, iv, io)

\* deleteFolder(config, folderId, deleteContents)
deleteFolder(s, folderId, deleteContents, iv, io) ==
    IF NotUnlocked(s) THEN Raise("StateError", 0, 0, s)
    ELSE Persist(s, DeletedFolder(s.manifestCache, folderId, deleteContents,
                                  s.clock),
                 DeletedFileIds(s.manifestCache, folderId, deleteContents),
                 iv, io)

\* renameFolder(config, folderId, newName)
renameFolder(s, folderId, newName, iv, io) ==
    IF NotUnlocked(s) THEN Raise("StateError", 0, 0, s)
    ELSE LET i == FindFolder(s.manifestCache.folders, folderId)
         IN  IF i = 0 THEN Raise("NotFound", 0, 0, s)
             ELSE Persist(s, RenamedFolder(s.manifestCache, i, newName,
                                           s.clock), NULL, iv, io)

\* renameFile(config, fileId, newName)
renameFile(s, fileId, newName, iv, io) ==
    IF NotUnlocked(s) THEN Raise("StateError", 0, 0, s)
    ELSE LET i == FindFile(s.manifestCache.files, fileId)
         IN  IF i = 0 THEN Raise("NotFound", 0, 0, s)
             ELSE Persist(s, RenamedFile(s.manifestCache, i, newName, s.clock),
                          NULL, iv, io)

\* A variant of the loop's start whose total counts only the ids that the
\* manifest holds
CopyStartTotalFound(s, fileIds) ==
    LET present(id) == FindFile(s.manifestCache.files, id) # 0
    IN  [files |-> s.manifestCache.files, store |-> s.storage,
         seq |-> s.uuidSeq, newFileIds |-> <<>>, gets |-> 0, puts |-> 0,
         err |-> "none", n |-> 0,
         total |-> Len(SelectSeq(fileIds, present)), copied |-> 0,
         reports |-> <<>>]

\* copyFilesToFolder, lines 547-549: the state the loop starts from
CopyStart(s, fileIds) ==
    [files |-> s.manifestCache.files, store |-> s.storage,
     seq |-> s.uuidSeq, newFileIds |-> <<>>, gets |-> 0, puts |-> 0,
     err |-> "none", n |-> 0, total |-> Len(fileIds), copied |-> 0,
     reports |-> <<>>]

\* The calls copyFilesToFolder makes of its onProgress callback, in order,
\* each as <<copied, total>>
onProgress(s, fileIds, targetFolderId, fail) ==
    IF NotUnlocked(s) THEN <<>>
    ELSE CopyLoop(fileIds, targetFolderId, fail, s.clock,
                  CopyStart(s, fileIds)).reports

\* copyFilesToFolder(config, fileIds, targetFolderId): the loop, then
\* lines 582-589
copyFilesToFolder(s, fileIds, targetFolderId, fail, iv, io) ==
    IF NotUnlocked(s) THEN Raise("StateError", 0, 0, s)
    ELSE
      LET st == CopyLoop(fileIds, targetFolderId, fail, s.clock,
                         CopyStart(s, fileIds))
          looped == [s EXCEPT !.manifestCache.files = st.files,
                              !.storage = st.store,
                              !.uuidSeq = st.seq]
          manifest == Touch(looped.manifestCache, s.clock)
          sealed == Persist(looped, manifest, st.newFileIds, iv, io)
      IN  IF st.err # "none" THEN Raise(st.err, st.gets, st.puts, looped)
          ELSE IF st.newFileIds = <<>>
          THEN Return(<<>>, "none", st.gets, st.puts, looped)
          ELSE [sealed EXCEPT !.gets = st.gets, !.puts = st.puts + 1]

----------------------------------------------------------------------------
(* Inputs of the calls *)

\* The files the upload path has stored and may add to the manifest
FileIds == {"f1"}

\* An EncryptedFileInfo as the upload path builds it
FileInfo(fileId) ==
    [fileId |-> fileId, fileName |-> <<"a", ".", "t">>, size |-> 1,
     mimeType |-> "text/plain", uploadedAt |-> 0,
     key |-> "key:" \o fileId, nonce |-> "nonce:" \o fileId]

\* What an earlier session may have left in the bucket: a manifest with
\* one file in one folder, sealed under the key of PriorKey
PriorKey == "0a"
PriorFolder ==
    [id |-> "d0", name |-> "Docs", parentId |-> Undefined, createdAt |-> 0,
     color |-> Undefined]
PriorFile == SetProp(FileInfo("f0"), "folderId", "d0")
PriorManifest ==
    [version |-> 1, files |-> <<PriorFile>>, folders |-> <<PriorFolder>>,
     createdAt |-> 0, updatedAt |-> 0]

\* The file ids a caller may name
KnownIds == {"f0", "f1"}

\* The lists of ids a caller may pass
IdLists == {<<>>, <<"f0">>, <<"f0", "f1">>}

\* The folder a caller may name as a target or a parent: the root, or "d0"
FolderRefs == {Undefined, "d0"}

\* The folder ids a caller may name: "d0", and the first generated id
FolderIds == {"d0", Uuid(1)}

FolderNames == {"Docs"}
NewFolderNames == {"Work"}
NewFileNames == {<<"b">>}

\* Where the transport may fail a copy of n items
CopyFailures(n) ==
    {[at |-> 0, op |-> "none"]} \cup [at : 1..n, op : {"get", "put"}]

\* P holds of the outcome of some mutation a caller may issue in state s
SomeMutation(s, P(_)) ==
    \E iv \in Nonces, io \in IOOutcomes :
      \/ \E f \in FileIds : P(addFileToManifest(s, FileInfo(f), iv, io))
      \/ \E f \in KnownIds : P(removeFileFromManifest(s, f, iv, io))
      \/ \E l \in IdLists : P(removeFilesFromManifest(s, l, iv, io))
      \/ \E f \in KnownIds : P(toggleFileFavorite(s, f, iv, io))
      \/ \E n \in FolderNames, p \in FolderRefs :
            P(createFolder(s, n, p, Undefined, iv, io))
      \/ \E f \in KnownIds, g \in FolderRefs :
            P(moveFileToFolder(s, f, g, iv, io))
      \/ \E l \in IdLists, g \in FolderRefs :
            P(moveFilesToFolder(s, l, g, iv, io))
      \/ \E g \in FolderIds, d \in BOOLEAN :
            P(deleteFolder(s, g, d, iv, io))
      \/ \E g \in FolderIds, n \in NewFolderNames :
            P(renameFolder(s, g, n, iv, io))
      \/ \E f \in KnownIds, n \in NewFileNames :
            P(renameFile(s, f, n, iv, io))
      \/ \E l \in IdLists, g \in FolderRefs :
            \E fail \in CopyFailures(Len(l)) :
               P(copyFilesToFolder(s, l, g, fail, iv, io))

\* P holds of the outcome of every mutation a caller may issue in state s
EveryMutation(s, P(_)) ==
    LET Q(o) == ~P(o) IN ~SomeMutation(s, Q)

----------------------------------------------------------------------------
(* The history the properties speak of:                                    *)
(*   initKey   the key bytes of the last initializeManifest that succeeded *)
(*             (in the earlier session, when none has in this one)         *)
(*   unlocked  an initializeManifest or unlockManifest has succeeded and   *)
(*             lockManifest has not been called since                      *)
(*   phase     "mutating" while only mutations that returned have followed *)
(*             the last successful initializeManifest, "locked" when       *)
(*             lockManifest was then called, "none" otherwise              *)
(*   atLock    in phase "locked", the manifest lockManifest cleared        *)
(*   changes   how many mutations have changed the tab or the bucket       *)
(*   tampered  the stored manifest blob was changed in the bucket after    *)
(*             the last upload of it                                       *)

GhostAfter(phase) == [ghost EXCEPT !.phase = phase, !.atLock = NULL]

----------------------------------------------------------------------------
(* Calls issued without awaiting.  A mutation runs without suspension up   *)
(* to the first await of encryptManifest (manifest.ts:45 has taken the     *)
(* JSON text by then); the encryption and the upload are in flight until   *)
(* uploadToStorage settles, and saveToSessionCache(manifestCache) runs     *)
(* then, on what the memory holds at that moment.                          *)

\* No mutation has been started.  calls are the mutations in flight;
\* started counts the mutations begun; landed is the number of the call
\* whose upload was the last to succeed and snapshot the manifest it had
\* sealed; overlapped tells that a call began while another was in flight,
\* failed that an upload was rejected
NoneInFlight ==
    [calls |-> <<>>, started |-> 0, landed |-> 0, snapshot |-> NULL,
     overlapped |-> FALSE, failed |-> FALSE]

\* The n-th mutation, suspended in state s after its change of the
\* in-memory manifest: the blob it will upload is sealed from the text
\* taken at that point
Begun(s, iv, n) ==
    [n |-> n, manifest |-> s.manifestCache,
     blob |-> encryptManifest(s.manifestCache, s.masterKeyCache, iv)]

\* A faulty completion that saves to the session cache the manifest the
\* call had sealed
SavedSnapshot(ss, call, manifest) == saveToSessionCache(ss, call.manifest)

\* saveToSessionCache(manifestCache) after the upload of call, manifest
\* being what the memory holds then
SavedOnCompletion(ss, call, manifest) == saveToSessionCache(ss, manifest)

----------------------------------------------------------------------------

(* Initial state: the module has just been loaded in a fresh tab.  The    *)
(* bucket holds the encrypted content of the files, which the upload path  *)
(* stores under files/<fileId> before it calls addFileToManifest, and      *)
(* either no manifest or the manifest an earlier session left.             *)

Contents == [k \in {FileKey(f) : f \in KnownIds} |-> [content |-> k]]

Buckets ==
    {Contents,
     Uploaded(Contents, MANIFEST_KEY,
         encryptManifest(PriorManifest,
                         deriveManifestKeyFromPrivateKey(PriorKey), 1))}

Init ==
    /\ manifestCache = NULL
    /\ masterKeyCache = NULL
    /\ sessionStorage = <<>>
    /\ storage \in Buckets
    /\ clock = 0
    /\ uuidSeq = 0
    /\ peer = [manifestCache |-> NULL, masterKeyCache |-> NULL,
               sessionStorage |-> <<>>]
    /\ backup = NoBackup
    /\ page = NULL
    /\ inFlight = NoneInFlight
    /\ ghost = [initKey |-> IF MANIFEST_KEY \in DOMAIN storage
                            THEN HexToBytes(PriorKey) ELSE <<>>,
                unlocked |-> FALSE, phase |-> "none",
                atLock |-> NULL, changes |-> 0, tampered |-> FALSE]

\* The call's outcome becomes the state
Becomes(after) ==
    /\ manifestCache' = after.manifestCache
    /\ masterKeyCache' = after.masterKeyCache
    /\ sessionStorage' = after.sessionStorage
    /\ storage' = after.storage
    /\ clock' = after.clock
    /\ uuidSeq' = after.uuidSeq
    /\ peer' = peer
    /\ backup' = backup
    /\ page' = page
    /\ inFlight' = inFlight

ManifestExists ==
    \E io \in IOOutcomes :
        /\ Becomes(manifestExists(Here, io).after)
        /\ ghost' = GhostAfter("none")

InitializeManifest ==
    \E k \in PrivateKeys,
       iv \in Nonces, io \in IOOutcomes :
        LET o == initializeManifest(Here, k, iv, io)
        IN  /\ Becomes(o.after)
            /\ ghost' = IF o.res = "ok"
                        THEN [ghost EXCEPT !.initKey = HexToBytes(k),
                                           !.unlocked = TRUE,
                                           !.phase = "mutating",
                                           !.atLock = NULL,
                                           !.tampered = FALSE]
                        ELSE GhostAfter("none")

UnlockManifest ==
    \E k \in PrivateKeys, io \in IOOutcomes :
        LET o == unlockManifest(Here, k, io)
        IN  /\ Becomes(o.after)
            /\ ghost' = [GhostAfter("none") EXCEPT
                           !.unlocked = @ \/ o.res = "ok"]

SyncManifest ==
    \E io \in IOOutcomes :
        /\ Becomes(syncManifest(Here, io).after)
        /\ ghost' = GhostAfter("none")

LockManifest ==
    /\ Becomes(lockManifest(Here).after)
    /\ ghost' = IF ghost.phase = "mutating"
                THEN [ghost EXCEPT !.unlocked = FALSE, !.phase = "locked",
                                   !.atLock = manifestCache]
                ELSE [GhostAfter("none") EXCEPT !.unlocked = FALSE]

GetManifest ==
    /\ Becomes(getManifest(Here).after)
    /\ ghost' = GhostAfter("none")

Reload ==
    /\ Becomes(Reloaded(Here))
    /\ ghost' = GhostAfter("none")

\* The model lets MaxChanges mutations change the state
Budget(o) == o.after # Here => ghost.changes < MaxChanges

\* The history after a mutation with outcome o
Mutated(o) ==
    [GhostAfter(IF o.res = "ok" /\ ghost.phase = "mutating"
                THEN "mutating" ELSE "none")
       EXCEPT !.changes = IF o.after # Here THEN @ + 1 ELSE @,
              !.tampered = @ /\ ~(o.res = "ok" /\ o.puts > 0)]

AddFileToManifest ==
    \E f \in FileIds,
       iv \in Nonces, io \in IOOutcomes :
        LET o == addFileToManifest(Here, FileInfo(f), iv, io)
        IN  /\ Budget(o)
            /\ Becomes(o.after)
            /\ ghost' = Mutated(o)

RemoveFileFromManifest ==
    \E f \in KnownIds,
       iv \in Nonces, io \in IOOutcomes :
        LET o == removeFileFromManifest(Here, f, iv, io)
        IN  /\ Budget(o)
            /\ Becomes(o.after)
            /\ ghost' = Mutated(o)

RemoveFilesFromManifest ==
    \E l \in IdLists,
       iv \in Nonces, io \in IOOutcomes :
        LET o == removeFilesFromManifest(Here, l, iv, io)
        IN  /\ Budget(o)
            /\ Becomes(o.after)
            /\ ghost' = Mutated(o)

ToggleFileFavorite ==
    \E f \in KnownIds,
       iv \in Nonces, io \in IOOutcomes :
        LET o == toggleFileFavorite(Here, f, iv, io)
        IN  /\ Budget(o)
            /\ Becomes(o.after)
            /\ ghost' = Mutated(o)

CreateFolder ==
    \E n \in FolderNames, p \in FolderRefs,
       iv \in Nonces, io \in IOOutcomes :
        LET o == createFolder(Here, n, p, Undefined, iv, io)
        IN  /\ Budget(o)
            /\ Becomes(o.after)
            /\ ghost' = Mutated(o)

MoveFileToFolder ==
    \E f \in KnownIds, g \in FolderRefs,
       iv \in Nonces, io \in IOOutcomes :
        LET o == moveFileToFolder(Here, f, g, iv, io)
        IN  /\ Budget(o)
            /\ Becomes(o.after)
            /\ ghost' = Mutated(o)

MoveFilesToFolder ==
    \E l \in IdLists, g \in FolderRefs,
       iv \in Nonces, io \in IOOutcomes :
        LET o == moveFilesToFolder(Here, l, g, iv, io)
        IN  /\ Budget(o)
            /\ Becomes(o.after)
            /\ ghost' = Mutated(o)

DeleteFolder ==
    \E g \in FolderIds, d \in BOOLEAN,
       iv \in Nonces, io \in IOOutcomes :
        LET o == deleteFolder(Here, g, d, iv, io)
        IN  /\ Budget(o)
            /\ Becomes(o.after)
            /\ ghost' = Mutated(o)

RenameFolder ==
    \E g \in FolderIds, n \in NewFolderNames,
       iv \in Nonces, io \in IOOutcomes :
        LET o == renameFolder(Here, g, n, iv, io)
        IN  /\ Budget(o)
            /\ Becomes(o.after)
            /\ ghost' = Mutated(o)

RenameFile ==
    \E f \in KnownIds, n \in NewFileNames,
       iv \in Nonces, io \in IOOutcomes :
        LET o == renameFile(Here, f, n, iv, io)
        IN  /\ Budget(o)
            /\ Becomes(o.after)
            /\ ghost' = Mutated(o)

CopyFilesToFolder ==
    \E l \in IdLists, g \in FolderRefs,
       iv \in Nonces, io \in IOOutcomes :
        \E fail \in CopyFailures(Len(l)) :
            LET o == copyFilesToFolder(Here, l, g, fail, iv, io)
            IN  /\ Budget(o)
                /\ Becomes(o.after)
                /\ ghost' = Mutated(o)

\* A millisecond passes
Tick ==
    /\ clock < MaxClock
    /\ clock' = clock + 1
    /\ UNCHANGED <<manifestCache, masterKeyCache, sessionStorage, storage,
                   uuidSeq, peer, page, backup, inFlight, ghost>>

Next ==
    \/ ManifestExists
    \/ InitializeManifest
    \/ UnlockManifest
    \/ SyncManifest
    \/ LockManifest
    \/ GetManifest
    \/ Reload
    \/ AddFileToManifest
    \/ RemoveFileFromManifest
    \/ RemoveFilesFromManifest
    \/ ToggleFileFavorite
    \/ CreateFolder
    \/ MoveFileToFolder
    \/ MoveFilesToFolder
    \/ DeleteFolder
    \/ RenameFolder
    \/ RenameFile
    \/ CopyFilesToFolder
    \/ Tick

Spec == Init /\ [][Next]_vars

----------------------------------------------------------------------------
(* The bucket is not trusted: whoever can write to it may change the       *)
(* stored manifest blob.                                                   *)

\* One byte of plaintext changed: counter mode turns a changed ciphertext
\* byte into the same change of the plaintext byte, here of the version
XorByte(json) ==
    IF json = Garbage THEN json
    ELSE [text |-> [json.text EXCEPT !.version = 3 - @]]

\* The blob with one byte changed in its nonce (bytes 0-11), its ciphertext
\* or its tag (the last 16 bytes)
FlipByte(blob, region) ==
    CASE region = "iv" -> [blob EXCEPT !.iv = 0 - @]
      [] region = "ct" -> [blob EXCEPT !.ct.pt = XorByte(@)]
      [] region = "tag" -> [blob EXCEPT !.tag.flipped = ~@]

Tamper ==
    /\ MANIFEST_KEY \in DOMAIN storage
    /\ ~ghost.tampered
    /\ \E region \in {"iv", "ct", "tag"} :
          storage' = [storage EXCEPT ![MANIFEST_KEY] = FlipByte(@, region)]
    /\ ghost' = [GhostAfter("none") EXCEPT !.tampered = TRUE]
    /\ UNCHANGED <<manifestCache, masterKeyCache, sessionStorage, clock,
                   uuidSeq, peer, page, backup, inFlight>>

NextTamper ==
    \/ Next
    \/ Tamper

SpecTamper == Init /\ [][NextTamper]_vars

----------------------------------------------------------------------------
(* Two tabs.  The second tab runs the same module against the same bucket; *)
(* its calls are the same operators, applied to its own memory and session *)
(* storage.  The clock and the generator of UUIDs are shared.              *)

\* The second tab and the bucket as they are
There ==
    [manifestCache |-> peer.manifestCache,
     masterKeyCache |-> peer.masterKeyCache,
     sessionStorage |-> peer.sessionStorage, storage |-> storage,
     clock |-> clock, uuidSeq |-> uuidSeq]

\* The outcome of a call of the second tab becomes the state
PeerBecomes(after) ==
    /\ peer' = [manifestCache |-> after.manifestCache,
                masterKeyCache |-> after.masterKeyCache,
                sessionStorage |-> after.sessionStorage]
    /\ storage' = after.storage
    /\ clock' = after.clock
    /\ uuidSeq' = after.uuidSeq
    /\ UNCHANGED <<manifestCache, masterKeyCache, sessionStorage, backup, page,
                   inFlight>>

\* The history after a call of the second tab with outcome o
PeerCalled(o) ==
    [GhostAfter("none")
       EXCEPT !.changes = IF o.after # There THEN @ + 1 ELSE @,
              !.tampered = @ /\ ~(o.res = "ok" /\ o.puts > 0)]

PeerUnlockManifest ==
    \E k \in PrivateKeys, io \in IOOutcomes :
        LET o == unlockManifest(There, k, io)
        IN  /\ PeerBecomes(o.after)
            /\ ghost' = GhostAfter("none")

PeerSyncManifest ==
    \E io \in IOOutcomes :
        LET o == syncManifest(There, io)
        IN  /\ PeerBecomes(o.after)
            /\ ghost' = GhostAfter("none")

PeerAddFileToManifest ==
    \E f \in FileIds, iv \in Nonces, io \in IOOutcomes :
        LET o == addFileToManifest(There, FileInfo(f), iv, io)
        IN  /\ o.after # There => ghost.changes < MaxChanges
            /\ PeerBecomes(o.after)
            /\ ghost' = PeerCalled(o)

PeerCreateFolder ==
    \E n \in FolderNames, p \in FolderRefs, iv \in Nonces,
       io \in IOOutcomes :
        LET o == createFolder(There, n, p, Undefined, iv, io)
        IN  /\ o.after # There => ghost.changes < MaxChanges
            /\ PeerBecomes(o.after)
            /\ ghost' = PeerCalled(o)

\* The calls the two tabs make here are those of the write path: the first
\* may initialize, both unlock, refresh, add files and create folders.
NextPeer ==
    \/ InitializeManifest
    \/ UnlockManifest
    \/ SyncManifest
    \/ AddFileToManifest
    \/ CreateFolder
    \/ Tick
    \/ PeerUnlockManifest
    \/ PeerSyncManifest
    \/ PeerAddFileToManifest
    \/ PeerCreateFolder

SpecPeer == Init /\ [][NextPeer]_vars

----------------------------------------------------------------------------
(* The key backup.  exportKeyPair writes a file, which the user keeps and  *)
(* later hands to importKeyPair; the file handed in is any JSON document,  *)
(* so it may lack properties that the export wrote.                        *)

\* exportKeyPair is called and its text saved as the backup file
ExportKeyPair ==
    /\ \E pair \in KeyPairs, password \in PasswordArgs, salt \in Salts,
          iv \in Nonces :
          backup' = [file |-> exportKeyPair(pair.privateKey, pair.publicKey,
                                            password, salt, iv),
                     pair |-> pair, password |-> password, intact |-> TRUE,
                     result |-> NULL]
    /\ UNCHANGED <<manifestCache, masterKeyCache, sessionStorage, storage,
                   clock, uuidSeq, peer, page, inFlight, ghost>>

\* The file that will be handed to importKeyPair lacks a property
DropProperty ==
    /\ backup.file # NULL
    /\ \E p \in DOMAIN backup.file.text :
          backup' = [backup EXCEPT
                       !.file = [text |-> [q \in DOMAIN @.text \ {p} |->
                                              @.text[q]]],
                       !.intact = FALSE,
                       !.result = NULL]
    /\ UNCHANGED <<manifestCache, masterKeyCache, sessionStorage, storage,
                   clock, uuidSeq, peer, page, inFlight, ghost>>

\* importKeyPair is called with the backup file
ImportKeyPair ==
    /\ backup.file # NULL
    /\ \E password \in PasswordArgs :
          backup' = [backup EXCEPT
                       !.result = [password |-> password,
                                   outcome |-> importKeyPair(backup.file,
                                                             password)]]
    /\ UNCHANGED <<manifestCache, masterKeyCache, sessionStorage, storage,
                   clock, uuidSeq, peer, page, inFlight, ghost>>

NextBackup ==
    \/ ExportKeyPair
    \/ DropProperty
    \/ ImportKeyPair

SpecBackup == Init /\ [][NextBackup]_vars

----------------------------------------------------------------------------

(* One session whose caller does not await a mutation before it issues the *)
(* next.  The store has been opened (initializeManifest on an empty        *)
(* bucket, unlockManifest on the bucket of an earlier session).            *)

InitOverlap ==
    \E bucket \in Buckets :
        LET fresh == [manifestCache |-> NULL, masterKeyCache |-> NULL,
                      sessionStorage |-> <<>>, storage |-> bucket,
                      clock |-> 0, uuidSeq |-> 0]
            o == IF MANIFEST_KEY \in DOMAIN bucket
                 THEN unlockManifest(fresh, PriorKey, "ok")
                 ELSE initializeManifest(fresh, PriorKey, 1, "ok")
        IN  /\ manifestCache = o.after.manifestCache
            /\ masterKeyCache = o.after.masterKeyCache
            /\ sessionStorage = o.after.sessionStorage
            /\ storage = o.after.storage
            /\ clock = o.after.clock
            /\ uuidSeq = o.after.uuidSeq
            /\ peer = [manifestCache |-> NULL, masterKeyCache |-> NULL,
                       sessionStorage |-> <<>>]
            /\ backup = NoBackup
            /\ page = NULL
            /\ inFlight = NoneInFlight
            /\ ghost = [initKey |-> HexToBytes(PriorKey), unlocked |-> TRUE,
                        phase |-> "none", atLock |-> NULL, changes |-> 0,
                        tampered |-> FALSE]

\* The call whose synchronous part ends as o (the outcome it would have if
\* its upload failed: the memory changed, nothing stored) is suspended
Suspended(o, iv) ==
    /\ inFlight.started < MaxOverlap
    /\ o.err = "TransportError"
    /\ manifestCache' = o.after.manifestCache
    /\ uuidSeq' = o.after.uuidSeq
    /\ inFlight' = [inFlight EXCEPT
                      !.calls = Append(@, Begun(o.after, iv,
                                                inFlight.started + 1)),
                      !.started = @ + 1,
                      !.overlapped = @ \/ inFlight.calls # <<>>]
    /\ UNCHANGED <<masterKeyCache, sessionStorage, storage, clock, peer, page,
                   backup, ghost>>

StartAddFile ==
    \E f \in FileIds, iv \in Nonces :
        /\ Suspended(addFileToManifest(Here, FileInfo(f), iv,
                                       "TransportError"), iv)

StartToggleFavorite ==
    \E f \in KnownIds, iv \in Nonces :
        /\ Suspended(toggleFileFavorite(Here, f, iv, "TransportError"), iv)

StartCreateFolder ==
    \E n \in FolderNames, p \in FolderRefs, iv \in Nonces :
        /\ Suspended(createFolder(Here, n, p, Undefined, iv,
                                  "TransportError"), iv)

\* The upload of a call in flight settles, and the call runs to its end
CompleteUpload ==
    \E i \in 1..Len(inFlight.calls), io \in IOOutcomes :
        LET call == inFlight.calls[i]
            rest == [j \in 1..(Len(inFlight.calls) - 1) |->
                        inFlight.calls[IF j < i THEN j ELSE j + 1]]
        IN  /\ storage' = IF io = "ok"
                          THEN Uploaded(storage, MANIFEST_KEY, call.blob)
                          ELSE storage
            /\ sessionStorage' =
                   IF io = "ok"
                   THEN SavedOnCompletion(sessionStorage, call, manifestCache)
                   ELSE sessionStorage
            /\ inFlight' = [inFlight EXCEPT
                              !.calls = rest,
                              !.landed = IF io = "ok" THEN call.n ELSE @,
                              !.snapshot = IF io = "ok" THEN call.manifest
                                           ELSE @,
                              !.failed = @ \/ io # "ok"]
            /\ UNCHANGED <<manifestCache, masterKeyCache, clock, uuidSeq,
                           peer, page, backup, ghost>>

NextOverlap ==
    \/ StartAddFile
    \/ StartToggleFavorite
    \/ StartCreateFolder
    \/ CompleteUpload
    \/ Tick

SpecOverlap == InitOverlap /\ [][NextOverlap]_vars

----------------------------------------------------------------------------

(* Properties.  A property of a call is stated at the state the call is    *)
(* made in, of the outcome the call has there for each of its inputs.      *)

\* The bucket of s holds a manifest blob
HasBlob(s) == MANIFEST_KEY \in DOMAIN s.storage

\* What the stored blob of s decrypts to under the key s has cached
Remote(s) ==
    LET dl == downloadFromStorage(s.storage, MANIFEST_KEY, "ok")
    IN  IF dl.err = "none" THEN decryptManifest(dl.data, s.masterKeyCache)
        ELSE dl

\* The private keys that spell the bytes b
KeysOf(b) == {k \in PrivateKeys : HexToBytes(k) = b}

\* The mutations can run in s
Usable(s) == s.manifestCache # NULL /\ s.masterKeyCache # NULL

\* C1: every mutation invoked while the store is Locked (no
\* initializeManifest or unlockManifest has succeeded yet, or none since the
\* last lockManifest) rejects with the state error, issues no get and no
\* put, and leaves the in-memory manifest, the master key and the session
\* storage as they were.
RejectsUntouched(o) ==
    /\ o.res = "throw"
    /\ o.err = "StateError"
    /\ o.gets = 0
    /\ o.puts = 0
    /\ o.after = Here

C1_LockedMutationsReject ==
    ~ghost.unlocked => EveryMutation(Here, RejectsUntouched)

\* A store that was unlocked and changed, and is locked again
C1_Witness ==
    /\ ~ghost.unlocked
    /\ ghost.changes > 0
    /\ SomeMutation(Here, RejectsUntouched)

\* C2: after every mutation that returns, the blob under the manifest key
\* decrypts under the cached master key to a manifest equal to the one in
\* memory, and the session cache holds that manifest too.
Agree(s) ==
    /\ Remote(s).err = "none"
    /\ SameManifest(Remote(s).manifest, s.manifestCache)
    /\ SameManifest(loadFromSessionCache(s.sessionStorage), s.manifestCache)

ReturnsAgreeing(o) == o.res = "ok" => Agree(o.after)

C2_ReturnedMutationIsPersisted == EveryMutation(Here, ReturnsAgreeing)

\* C3: after initializeManifest with the key K, mutations that all returned,
\* and lockManifest, unlockManifest with K (its download succeeding)
\* returns, and what it returns and installs is equal to the manifest that
\* was in memory when lockManifest was called.
C3_UnlockRestoresLockedManifest ==
    ghost.phase = "locked" =>
        \A k \in KeysOf(ghost.initKey) :
            LET o == unlockManifest(Here, k, "ok")
            IN  /\ o.res = "ok"
                /\ SameManifest(o.ret, ghost.atLock)
                /\ o.after.manifestCache = o.ret
                /\ isManifestUnlocked(o.after)

\* Locked after a mutation added an entry; K typed as at initializeManifest
\* or in the other case
C3_Witness ==
    /\ ghost.phase = "locked"
    /\ Len(ghost.atLock.files) + Len(ghost.atLock.folders) > 0
    /\ Cardinality(KeysOf(ghost.initKey)) > 1
    /\ \E k \in KeysOf(ghost.initKey) :
          unlockManifest(Here, k, "ok").res = "ok"

\* C4: unlockManifest with a private key other than the one the manifest was
\* initialized with always rejects, with the authentication failure when
\* the blob was downloaded; it returns no manifest and changes nothing, so
\* the store does not become Unlocked.
C4_WrongKeyRejected ==
    ghost.initKey # <<>> =>
        \A k \in PrivateKeys \ KeysOf(ghost.initKey), io \in IOOutcomes :
            LET o == unlockManifest(Here, k, io)
            IN  /\ o.res = "throw"
                /\ o.ret = NULL
                /\ io = "ok" => o.err = "AuthenticationFailure"
                /\ o.after = Here

\* A locked store whose manifest this session initialized and filled
C4_Witness ==
    /\ ghost.initKey # <<>>
    /\ ~ghost.unlocked
    /\ ghost.changes > 0
    /\ \E k \in PrivateKeys \ KeysOf(ghost.initKey) :
          unlockManifest(Here, k, "ok").err = "AuthenticationFailure"

\* C5: once one byte of the stored manifest blob (in its nonce, its
\* ciphertext or its tag) has been changed in the bucket, unlockManifest
\* rejects under every key, the right one included, with the authentication
\* failure when the blob was downloaded, and syncManifest returns no
\* manifest; neither changes the manifest in memory or in the session cache.
C5_TamperedBlobRejected ==
    ghost.tampered =>
        /\ \A k \in PrivateKeys, io \in IOOutcomes :
              LET o == unlockManifest(Here, k, io)
              IN  /\ o.res = "throw"
                  /\ io = "ok" => o.err = "AuthenticationFailure"
                  /\ o.after = Here
        /\ \A io \in IOOutcomes :
              LET o == syncManifest(Here, io)
              IN  o.ret = NULL /\ o.after = Here

\* An unlocked session whose blob was changed in the ciphertext: the change
\* would decrypt to another manifest
C5_Witness ==
    /\ ghost.tampered
    /\ Usable(Here)
    /\ storage[MANIFEST_KEY].tag =
           GcmTag(masterKeyCache, storage[MANIFEST_KEY].iv,
                  [storage[MANIFEST_KEY].ct EXCEPT !.pt = XorByte(@)])
    /\ syncManifest(Here, "ok").err = "AuthenticationFailure"
    /\ \E k \in PrivateKeys :
          /\ deriveManifestKeyFromPrivateKey(k) = masterKeyCache
          /\ unlockManifest(Here, k, "ok").err = "AuthenticationFailure"

\* C6: from any state, lockManifest leaves no manifest and no master key in
\* memory and removes both entries of the session storage, so that after it
\* getManifest() returns null, getMasterKey() returns null and
\* isManifestUnlocked() returns false.
C6_LockClearsEverything ==
    LET o == lockManifest(Here)
    IN  /\ o.res = "ok"
        /\ o.after.manifestCache = NULL
        /\ o.after.masterKeyCache = NULL
        /\ getItem(o.after.sessionStorage, SESSION_CACHE_KEY) = NULL
        /\ getItem(o.after.sessionStorage, SESSION_UNLOCKED_KEY) = NULL
        /\ getManifest(o.after).ret = NULL
        /\ getMasterKey(o.after) = NULL
        /\ ~isManifestUnlocked(o.after)

\* An unlocked store with an entry in its manifest, about to be locked
C6_Witness ==
    /\ isManifestUnlocked(Here)
    /\ getMasterKey(Here) # NULL
    /\ Len(manifestCache.files) > 0
    /\ loadFromSessionCache(sessionStorage) # NULL
    /\ lockManifest(Here).after # Here

C8_ExistsIffPresent ==
    \A io \in IOOutcomes : manifestExists(Here, io).ret = HasBlob(Here)

\* C9: initializeManifest does not look for a manifest: whatever the bucket
\* holds under the manifest key, once the upload succeeded the blob there is
\* an empty manifest (version 1, no files, no folders) sealed under the
\* given key, and the session is Unlocked with that manifest and that key.
C9_InitializeOverwrites ==
    \A k \in PrivateKeys, iv \in Nonces :
        LET o == initializeManifest(Here, k, iv, "ok")
            a == o.after
        IN  /\ o.res = "ok"
            /\ o.gets = 0
            /\ a.masterKeyCache = deriveManifestKeyFromPrivateKey(k)
            /\ Remote(a).err = "none"
            /\ Remote(a).manifest.version = 1
            /\ Remote(a).manifest.files = <<>>
            /\ Remote(a).manifest.folders = <<>>
            /\ SameManifest(a.manifestCache, Remote(a).manifest)
            /\ SameManifest(getManifest(a).ret, Remote(a).manifest)
            /\ isManifestUnlocked(a)

\* An unlocked session and a bucket that hold a manifest with a file, sealed
\* under one key; initializeManifest is called with that key and with another
C9_Witness ==
    /\ HasBlob(Here)
    /\ Usable(Here)
    /\ Len(manifestCache.files) > 0
    /\ \E k \in PrivateKeys :
          LET dec == decryptManifest(storage[MANIFEST_KEY],
                                     deriveManifestKeyFromPrivateKey(k))
          IN  dec.err = "none" /\ Len(dec.manifest.files) > 0
    /\ \A k \in PrivateKeys :
          initializeManifest(Here, k, 1, "ok").after.storage # storage

\* C10 as the specification states it: after every mutation call that
\* returns, updatedAt is strictly greater than it was before the call.
StampedLater(o) ==
    o.res = "ok" =>
        o.after.manifestCache.updatedAt > manifestCache.updatedAt

Stamped(o) ==
    o.res = "ok" =>
        /\ o.after.manifestCache.updatedAt =
               IF o.puts > 0 THEN clock ELSE manifestCache.updatedAt
        /\ o.after.manifestCache.updatedAt >= manifestCache.updatedAt

UploadsAtSameStamp(o) ==
    /\ o.res = "ok"
    /\ o.puts > 0
    /\ o.after.manifestCache.updatedAt = manifestCache.updatedAt

Ids(manifest) == [i \in 1..Len(manifest.files) |-> manifest.files[i].fileId]

\* C11: two sessions are unlocked on the same bucket with the same key.
\* There is no version check on write: with the transport working, a
\* mutation of either session that adds an entry returns without an error
\* whatever the bucket holds, and the stored manifest is then the whole
\* document of the writer, so that an entry the other session had uploaded
\* and the writer had not seen is gone from it.
Overwrites(s, o) ==
    /\ o.res = "ok"
    /\ Remote(o.after).err = "none"
    /\ SameManifest(Remote(o.after).manifest, o.after.manifestCache)
    /\ Len(o.after.manifestCache.files) + Len(o.after.manifestCache.folders)
         = Len(s.manifestCache.files) + Len(s.manifestCache.folders) + 1

WritesBlind(s) ==
    Usable(s) =>
        /\ \A f \in FileIds, iv \in Nonces :
              Overwrites(s, addFileToManifest(s, FileInfo(f), iv, "ok"))
        /\ \A n \in FolderNames, p \in FolderRefs, iv \in Nonces :
              Overwrites(s, createFolder(s, n, p, Undefined, iv, "ok"))

C11_NoVersionCheckOnWrite == WritesBlind(Here) /\ WritesBlind(There)

\* Both sessions hold the same key; the first one has uploaded a file the
\* second one has not seen, and the second one's createFolder returns and
\* leaves a stored manifest without that file
C11_Witness ==
    /\ Usable(Here)
    /\ Usable(There)
    /\ masterKeyCache = peer.masterKeyCache
    /\ Remote(Here).err = "none"
    /\ \E f \in FileIds :
          /\ FindFile(Remote(Here).manifest.files, f) # 0
          /\ FindFile(manifestCache.files, f) # 0
          /\ FindFile(peer.manifestCache.files, f) = 0
          /\ \E n \in FolderNames :
                LET o == createFolder(There, n, Undefined, Undefined, 1, "ok")
                IN  /\ o.res = "ok"
                    /\ FindFile(Remote(o.after).manifest.files, f) = 0

\* C12: in every manifest the calls can produce, fileId is unique across
\* the files: no mutation leaves two entries with the same fileId.
UniqueIds(manifest) ==
    \A i, j \in 1..Len(manifest.files) :
        manifest.files[i].fileId = manifest.files[j].fileId => i = j

LeavesIdsUnique(o) == UniqueIds(o.after.manifestCache)

C12_FileIdsUnique ==
    Usable(Here) =>
        /\ UniqueIds(manifestCache)
        /\ EveryMutation(Here, LeavesIdsUnique)

\* C13: in every manifest the calls can produce, the folderId of a file, if
\* present, is the id of a folder of the manifest.
RefsExist(manifest) ==
    \A i \in 1..Len(manifest.files) :
        \/ Prop(manifest.files[i], "folderId") = Undefined
        \/ FindFolder(manifest.folders, manifest.files[i].folderId) # 0

LeavesRefsExisting(o) == RefsExist(o.after.manifestCache)

C13_FolderIdRefersToFolder ==
    Usable(Here) =>
        /\ RefsExist(manifestCache)
        /\ EveryMutation(Here, LeavesRefsExisting)

\* C14: a mutation that targets a file or a folder by id
\* (removeFileFromManifest, renameFile, toggleFileFavorite, moveFileToFolder,
\* renameFolder, deleteFolder), called on an unlocked store with an id the
\* manifest does not hold, rejects with the not-found error, issues no put
\* and leaves the manifest, updatedAt included, as it was.
RejectsNotFound(o) ==
    /\ o.res = "throw"
    /\ o.err = "NotFound"
    /\ o.puts = 0
    /\ o.after.manifestCache = manifestCache
    /\ o.after.storage = storage

C14_MissingIdRejected ==
    ~NotUnlocked(Here) =>
        \A iv \in Nonces, io \in IOOutcomes :
            /\ \A f \in KnownIds :
                  FindFile(manifestCache.files, f) = 0 =>
                      /\ RejectsNotFound(removeFileFromManifest(Here, f, iv, io))
                      /\ \A n \in NewFileNames :
                            RejectsNotFound(renameFile(Here, f, n, iv, io))
                      /\ RejectsNotFound(toggleFileFavorite(Here, f, iv, io))
                      /\ \A g \in FolderRefs :
                            RejectsNotFound(moveFileToFolder(Here, f, g, iv, io))
            /\ \A d \in FolderIds :
                  FindFolder(manifestCache.folders, d) = 0 =>
                      /\ \A n \in NewFolderNames :
                            RejectsNotFound(renameFolder(Here, d, n, iv, io))
                      /\ \A c \in BOOLEAN :
                            RejectsNotFound(deleteFolder(Here, d, c, iv, io))

\* C15: deleteFolder(F, false) that returns has removed the folder F, has
\* cleared folderId on exactly the files whose folderId was F and changed no
\* other file, has removed no file (getFileFromManifest still returns each),
\* and returns the empty list.
InFolder(manifest, folderId) ==
    {i \in 1..Len(manifest.files) :
        Prop(manifest.files[i], "folderId") = folderId}

SameButFolder(f, g) ==
    /\ DOMAIN f \ {"folderId"} = DOMAIN g \ {"folderId"}
    /\ \A p \in DOMAIN f \ {"folderId"} : f[p] = g[p]

KeepsContents(folderId, o) ==
    LET old == manifestCache
        new == o.after.manifestCache
    IN  /\ o.ret = <<>>
        /\ FindFolder(new.folders, folderId) = 0
        /\ Len(new.files) = Len(old.files)
        /\ \A i \in 1..Len(old.files) :
              /\ IF i \in InFolder(old, folderId)
                 THEN /\ Prop(new.files[i], "folderId") = Undefined
                      /\ SameButFolder(new.files[i], old.files[i])
                 ELSE new.files[i] = old.files[i]
              /\ LET got == getFileFromManifest(o.after, old.files[i].fileId)
                 IN  /\ got.ret # NULL
                     /\ got.ret.fileId = old.files[i].fileId

C15_DeleteFolderKeepsFiles ==
    ~NotUnlocked(Here) =>
        \A iv \in Nonces, io \in IOOutcomes, d \in FolderIds :
            LET o == deleteFolder(Here, d, FALSE, iv, io)
            IN  o.res = "ok" => KeepsContents(d, o)

\* A folder holding a file is deleted without its contents
C15_Witness ==
    /\ ~NotUnlocked(Here)
    /\ \E iv \in Nonces, d \in FolderIds :
          LET o == deleteFolder(Here, d, FALSE, iv, "ok")
          IN  /\ FindFolder(manifestCache.folders, d) # 0
              /\ InFolder(manifestCache, d) # {}
              /\ o.res = "ok"
              /\ InFolder(o.after.manifestCache, d) = {}
              /\ Len(o.after.manifestCache.files) > 0

\* C16: deleteFolder(F, true) that returns has removed the folder F and
\* exactly the files whose folderId was F, returns exactly the ids of those
\* files, and leaves every other file as it was.
Entries(manifest) == {manifest.files[i] : i \in 1..Len(manifest.files)}

RemovesContents(folderId, o) ==
    LET old == manifestCache
        new == o.after.manifestCache
        inside == InFolder(old, folderId)
    IN  /\ FindFolder(new.folders, folderId) = 0
        /\ Len(new.files) = Len(old.files) - Cardinality(inside)
        /\ InFolder(new, folderId) = {}
        /\ Entries(new) = {old.files[i] : i \in (1..Len(old.files)) \ inside}
        /\ Len(o.ret) = Cardinality(inside)
        /\ {o.ret[i] : i \in 1..Len(o.ret)} =
               {old.files[i].fileId : i \in inside}

C16_DeleteFolderWithContents ==
    ~NotUnlocked(Here) =>
        \A iv \in Nonces, io \in IOOutcomes, d \in FolderIds :
            LET o == deleteFolder(Here, d, TRUE, iv, io)
            IN  o.res = "ok" => RemovesContents(d, o)

\* A folder holding a file is deleted with its contents, beside a file that
\* is not in it
C16_Witness ==
    /\ ~NotUnlocked(Here)
    /\ \E iv \in Nonces, d \in FolderIds :
          LET o == deleteFolder(Here, d, TRUE, iv, "ok")
          IN  /\ FindFolder(manifestCache.folders, d) # 0
              /\ InFolder(manifestCache, d) # {}
              /\ InFolder(manifestCache, d) # 1..Len(manifestCache.files)
              /\ o.res = "ok"
              /\ Len(o.ret) = 1
              /\ Len(o.after.manifestCache.files) = 1

\* The ids of fileIds that copyFilesToFolder finds in the manifest, in order
CopySources(manifest, fileIds) ==
    LET present(id) == FindFile(manifest.files, id) # 0
    IN  SelectSeq(fileIds, present)

\* C17: copyFilesToFolder that returns has, for every file it copied,
\* written files/<newId> with the bytes of files/<sourceId> and appended an
\* entry whose fileId is new (different from every fileId the manifest held
\* and from the other copies) and whose key, nonce, size and mimeType are
\* the source's; the entries and the contents that were there are unchanged.
CopiesFaithfully(fileIds, o) ==
    LET old == manifestCache
        new == o.after.manifestCache
        sources == CopySources(old, fileIds)
    IN  /\ Len(o.ret) = Len(sources)
        /\ Len(new.files) = Len(old.files) + Len(sources)
        /\ \A i \in 1..Len(old.files) : new.files[i] = old.files[i]
        /\ \A k \in DOMAIN storage \ {MANIFEST_KEY} :
              /\ k \in DOMAIN o.after.storage
              /\ o.after.storage[k] = storage[k]
        /\ \A j \in 1..Len(sources) :
              LET source == old.files[FindFile(old.files, sources[j])]
                  copy == new.files[Len(old.files) + j]
              IN  /\ copy.fileId = o.ret[j]
                  /\ o.ret[j] \notin Range(Ids(old))
                  /\ \A h \in 1..Len(sources) : h # j => o.ret[h] # o.ret[j]
                  /\ copy.key = source.key
                  /\ copy.nonce = source.nonce
                  /\ copy.size = source.size
                  /\ copy.mimeType = source.mimeType
                  /\ FileKey(o.ret[j]) \in DOMAIN o.after.storage
                  /\ o.after.storage[FileKey(o.ret[j])] =
                         storage[FileKey(sources[j])]

C17_CopyIsFaithful ==
    ~NotUnlocked(Here) =>
        \A iv \in Nonces, io \in IOOutcomes, l \in IdLists, g \in FolderRefs :
            \A fail \in CopyFailures(Len(l)) :
                LET o == copyFilesToFolder(Here, l, g, fail, iv, io)
                IN  o.res = "ok" => CopiesFaithfully(l, o)

\* A file of the manifest is copied
C17_Witness ==
    /\ ~NotUnlocked(Here)
    /\ \E iv \in Nonces, l \in IdLists, g \in FolderRefs :
          LET o == copyFilesToFolder(Here, l, g, [at |-> 0, op |-> "none"],
                                     iv, "ok")
          IN  /\ o.res = "ok"
              /\ Len(o.ret) >= 1
              /\ FindFile(o.after.manifestCache.files, o.ret[1]) >
                     Len(manifestCache.files)
              /\ FileKey(o.ret[1]) \notin DOMAIN storage
              /\ FileKey(o.ret[1]) \in DOMAIN o.after.storage

\* C18: the copy's name has the " (copy)" suffix exactly when the target
\* folder is the folder of the source (no folder on both sides counting as
\* the same); the suffix stands before the last dot of the name, and at the
\* end of a name without a dot.
HasCopySuffix(name, copyName) ==
    LET dots == {i \in 1..Len(name) : name[i] = "."}
        k == IF dots = {} THEN Len(name)
             ELSE (CHOOSE i \in dots : \A j \in dots : j <= i) - 1
    IN  /\ Len(copyName) = Len(name) + Len(CopySuffix)
        /\ \A i \in 1..k : copyName[i] = name[i]
        /\ \A i \in 1..Len(CopySuffix) : copyName[k + i] = CopySuffix[i]
        /\ \A i \in (k + 1)..Len(name) :
              copyName[i + Len(CopySuffix)] = name[i]

NamesCopies(fileIds, targetFolderId, o) ==
    LET old == manifestCache
        new == o.after.manifestCache
        sources == CopySources(old, fileIds)
    IN  /\ Len(new.files) = Len(old.files) + Len(sources)
        /\ \A j \in 1..Len(sources) :
              LET source == old.files[FindFile(old.files, sources[j])]
                  copy == new.files[Len(old.files) + j]
              IN  IF Prop(source, "folderId") = targetFolderId
                  THEN HasCopySuffix(source.fileName, copy.fileName)
                  ELSE copy.fileName = source.fileName

C18_CopySuffixWhenSameFolder ==
    ~NotUnlocked(Here) =>
        \A iv \in Nonces, io \in IOOutcomes, l \in IdLists, g \in FolderRefs :
            \A fail \in CopyFailures(Len(l)) :
                LET o == copyFilesToFolder(Here, l, g, fail, iv, io)
                IN  o.res = "ok" => NamesCopies(l, g, o)

\* A file in a folder and a file in no folder, both named "a.t", are copied
\* to no folder: the first keeps its name, the second becomes "a (copy).t"
C18_Witness ==
    /\ ~NotUnlocked(Here)
    /\ \E iv \in Nonces :
          LET o == copyFilesToFolder(Here, <<"f0", "f1">>, Undefined,
                                     [at |-> 0, op |-> "none"], iv, "ok")
              new == o.after.manifestCache.files
          IN  /\ o.res = "ok"
              /\ Len(o.ret) = 2
              /\ Len(new) = 4
              /\ Prop(new[1], "folderId") = "d0"
              /\ Prop(new[2], "folderId") = Undefined
              /\ new[3].fileName = <<"a", ".", "t">>
              /\ new[4].fileName =
                     <<"a", " ", "(", "c", "o", "p", "y", ")", ".", "t">>

\* C19: when copyFilesToFolder fails at its k-th item, the k-1 items copied
\* before it are committed: the stored manifest and the session cache hold
\* their new entries.
CopiesCommitted(o) ==
    LET copied == Range(Ids(o.after.manifestCache)) \ Range(Ids(manifestCache))
        cached == loadFromSessionCache(o.after.sessionStorage)
    IN  copied # {} =>
            /\ Remote(o.after).err = "none"
            /\ copied \subseteq Range(Ids(Remote(o.after).manifest))
            /\ cached # NULL
            /\ copied \subseteq Range(Ids(cached))

C19_PartialCopyIsCommitted ==
    ~NotUnlocked(Here) =>
        \A iv \in Nonces, l \in IdLists, g \in FolderRefs :
            \A fail \in CopyFailures(Len(l)) :
                LET o == copyFilesToFolder(Here, l, g, fail, iv, "ok")
                IN  (fail.at > 1 /\ o.res = "throw") => CopiesCommitted(o)

\* C20: copyFilesToFolder reports its progress after each item: for a
\* request of n file ids the callback is called with (1, n), (2, n), ... in
\* order, once per item, so that when the call returns the last report is
\* (n, n) and n new ids are returned.
ReportsEveryItem(fileIds, o, reports) ==
    LET n == Len(fileIds)
    IN  /\ \A i \in 1..Len(reports) : reports[i] = <<i, n>>
        /\ o.res = "ok" =>
              /\ Len(reports) = n
              /\ Len(o.ret) = n

C20_ProgressReachesTotal ==
    ~NotUnlocked(Here) =>
        \A iv \in Nonces, io \in IOOutcomes, l \in IdLists, g \in FolderRefs :
            \A fail \in CopyFailures(Len(l)) :
                ReportsEveryItem(l, copyFilesToFolder(Here, l, g, fail, iv, io),
                                 onProgress(Here, l, g, fail))

\* C20, as the code has it: ids that the manifest does not hold are skipped
\* without a report.  For a request of n file ids of which m are in the
\* manifest the callback is called with (1, n), (2, n), ... in order, once
\* per item copied, so that when the call returns the last report is (m, n)
\* and m new ids are returned.
ReportsEveryCopy(fileIds, o, reports) ==
    LET n == Len(fileIds)
        m == Len(CopySources(manifestCache, fileIds))
    IN  /\ Len(reports) <= m
        /\ \A i \in 1..Len(reports) : reports[i] = <<i, n>>
        /\ o.res = "ok" =>
              /\ Len(reports) = m
              /\ Len(o.ret) = m
        /\ o.res = "throw" =>
              Len(reports) = Len(o.after.manifestCache.files)
                             - Len(manifestCache.files)

C20_ProgressCountsCopies ==
    ~NotUnlocked(Here) =>
        \A iv \in Nonces, io \in IOOutcomes, l \in IdLists, g \in FolderRefs :
            \A fail \in CopyFailures(Len(l)) :
                ReportsEveryCopy(l, copyFilesToFolder(Here, l, g, fail, iv, io),
                                 onProgress(Here, l, g, fail))

\* Two ids are requested and one of them is not in the manifest: the call
\* returns one id after the single report (1, 2)
C20_Witness ==
    /\ ~NotUnlocked(Here)
    /\ \E iv \in Nonces, l \in IdLists, g \in FolderRefs :
          LET none == [at |-> 0, op |-> "none"]
              o == copyFilesToFolder(Here, l, g, none, iv, "ok")
          IN  /\ Len(l) = 2
              /\ o.res = "ok"
              /\ Len(o.ret) = 1
              /\ onProgress(Here, l, g, none) = << <<1, 2>> >>

\* C21: toggleFileFavorite is an involution.  For a file of an unlocked
\* manifest, two calls in succession that both return leave isFavorite as it
\* read before them (a file that had no isFavorite property reads false, and
\* holds false afterwards); each call returns the value it has just stored;
\* no other field of the file and no other file changes.
Favorite(file) == ~NotFavorite(file)

SameButFavorite(f, g) ==
    /\ DOMAIN f \ {"isFavorite"} = DOMAIN g \ {"isFavorite"}
    /\ \A p \in DOMAIN f \ {"isFavorite"} : f[p] = g[p]

TogglesBack(i, o1, o2) ==
    LET old == manifestCache.files
        mid == o1.after.manifestCache.files
        new == o2.after.manifestCache.files
    IN  /\ Len(mid) = Len(old)
        /\ Len(new) = Len(old)
        /\ o1.ret = ~Favorite(old[i])
        /\ mid[i].isFavorite = o1.ret
        /\ o2.ret = Favorite(old[i])
        /\ new[i].isFavorite = o2.ret
        /\ "isFavorite" \in DOMAIN old[i] => new[i] = old[i]
        /\ SameButFavorite(mid[i], old[i])
        /\ SameButFavorite(new[i], old[i])
        /\ \A j \in (1..Len(old)) \ {i} : mid[j] = old[j] /\ new[j] = old[j]
        /\ o2.after.manifestCache.folders = manifestCache.folders

C21_ToggleFavoriteIsInvolution ==
    ~NotUnlocked(Here) =>
        \A iv1 \in Nonces, iv2 \in Nonces, f \in KnownIds :
            LET i == FindFile(manifestCache.files, f)
                o1 == toggleFileFavorite(Here, f, iv1, "ok")
            IN  i # 0 =>
                  /\ o1.res = "ok"
                  /\ \A now \in clock..MaxClock :
                        LET o2 == toggleFileFavorite(
                                      [o1.after EXCEPT !.clock = now], f, iv2,
                                      "ok")
                        IN  o2.res = "ok" /\ TogglesBack(i, o1, o2)

\* A file that is a favorite is toggled twice: the first call returns false,
\* the second true, and the files are as they were
C21_Witness ==
    /\ ~NotUnlocked(Here)
    /\ \E iv \in Nonces, f \in KnownIds :
          LET i == FindFile(manifestCache.files, f)
              o1 == toggleFileFavorite(Here, f, iv, "ok")
              o2 == toggleFileFavorite(o1.after, f, iv, "ok")
          IN  /\ i # 0
              /\ Favorite(manifestCache.files[i])
              /\ o1.res = "ok" /\ o1.ret = FALSE
              /\ o2.res = "ok" /\ o2.ret = TRUE
              /\ o2.after.manifestCache.files = manifestCache.files

\* addFileToManifest(entry) and then removeFileFromManifest(entry.fileId),
\* both uploads succeeding, the second call reading the clock at now
AddThenRemove(s, f, iv1, iv2, now) ==
    LET o1 == addFileToManifest(s, FileInfo(f), iv1, "ok")
    IN  removeFileFromManifest([o1.after EXCEPT !.clock = now], f, iv2, "ok")

Parents(manifest) ==
    {Undefined} \cup FolderIds
        \cup {manifest.folders[i].id : i \in 1..Len(manifest.folders)}

\* list holds exactly the folders of manifest whose parentId is parentId, in
\* the order the manifest has them, which is the order of their creation
DirectChildren(manifest, parentId, list) ==
    LET at == {i \in 1..Len(manifest.folders) :
                  Prop(manifest.folders[i], "parentId") = parentId}
    IN  /\ Len(list) = Cardinality(at)
        /\ \A k \in 1..Len(list) :
              \E i \in at : /\ Cardinality({j \in at : j <= i}) = k
                            /\ list[k] = manifest.folders[i]

\* C23: getFoldersInFolder(P) returns exactly the folders whose parentId is
\* P (no P meaning the root), never a deeper descendant, in creation order;
\* createFolder(name, P) returns a folder with an id no folder had, which
\* getFoldersInFolder(P) then includes, last, and no other parent's list
\* does.
ListsCreated(parentId, o) ==
    LET old == manifestCache
        new == o.after.manifestCache
        listed(q) == getFoldersInFolder(o.after, q).ret
    IN  /\ o.res = "ok"
        /\ FindFolder(old.folders, o.ret.id) = 0
        /\ Len(listed(parentId)) > 0
        /\ listed(parentId)[Len(listed(parentId))] = o.ret
        /\ \A q \in Parents(new) :
              /\ DirectChildren(new, q, listed(q))
              /\ q # parentId =>
                    \A k \in 1..Len(listed(q)) : listed(q)[k].id # o.ret.id

C23_FoldersInFolderAreDirectChildren ==
    ~NotUnlocked(Here) =>
        /\ \A q \in Parents(manifestCache) :
              DirectChildren(manifestCache, q,
                             getFoldersInFolder(Here, q).ret)
        /\ \A iv \in Nonces, n \in FolderNames, p \in Parents(manifestCache) :
              ListsCreated(p, createFolder(Here, n, p, Undefined, iv, "ok"))

\* A folder holds a folder, in which a third is created: the list of the
\* first holds the second and not the third
C23_Witness ==
    /\ ~NotUnlocked(Here)
    /\ \E iv \in Nonces, n \in FolderNames, p \in Parents(manifestCache) :
          LET i == FindFolder(manifestCache.folders, p)
              top == Prop(manifestCache.folders[i], "parentId")
              o == createFolder(Here, n, p, Undefined, iv, "ok")
          IN  /\ i # 0
              /\ top # Undefined
              /\ FindFolder(manifestCache.folders, top) # 0
              /\ o.res = "ok"
              /\ getFoldersInFolder(o.after, p).ret = <<o.ret>>
              /\ getFoldersInFolder(o.after, top).ret =
                     <<manifestCache.folders[i]>>

\* The backup file is what exportKeyPair wrote under a password
Protected == backup.intact /\ Given(backup.password)

\* C24: for every key pair and every password pw, importKeyPair of what
\* exportKeyPair(pair, pw) wrote returns the pair when given pw, and when
\* given another password fails with the wrong-password error and returns
\* no key material.
C24_BackupRoundTrip ==
    backup.intact =>
        /\ LET o == importKeyPair(backup.file, backup.password)
           IN  o.res = "ok" /\ o.ret = backup.pair
        /\ Protected =>
              \A other \in Passwords \ {backup.password} :
                  LET o == importKeyPair(backup.file, other)
                  IN  /\ o.res = "throw"
                      /\ o.err = WrongPassword
                      /\ o.ret = NULL
        /\ (backup.result # NULL /\ Given(backup.result.password)) =>
              IF backup.result.password = backup.password
              THEN backup.result.outcome.ret = backup.pair
              ELSE Protected => backup.result.outcome.err = WrongPassword

\* A backup written under a password has been imported with another
\* password, and rejected; the password it was written under opens it
C24_Witness ==
    /\ Protected
    /\ backup.result # NULL
    /\ Given(backup.result.password)
    /\ backup.result.password # backup.password
    /\ backup.result.outcome.res = "throw"
    /\ importKeyPair(backup.file, backup.password).ret = backup.pair

\* C25: importKeyPair of a backup written under a password, called without
\* a password, fails with the wrong-password error and not with the
\* malformed-backup error.
C25_MissingPasswordIsWrongPassword ==
    Protected =>
        \A none \in PasswordArgs \ Passwords :
            LET o == importKeyPair(backup.file, none)
            IN  /\ o.res = "throw"
                /\ o.err = WrongPassword

\* The file lacks a property that importKeyPair needs: a plaintext backup
\* its privateKey or its publicKey, an encrypted one its salt, its nonce or
\* its ciphertext
LacksRequired(file) ==
    LET keyData == file.text
    IN  IF "encrypted" \in DOMAIN keyData
        THEN ~({"salt", "iv", "data"} \subseteq DOMAIN keyData)
        ELSE ~({"privateKey", "publicKey"} \subseteq DOMAIN keyData)

\* C26: importKeyPair of a backup that lacks a required property fails with
\* the malformed-backup error, whatever password is given, and returns no
\* key pair.
C26_MissingFieldIsMalformed ==
    (backup.file # NULL /\ LacksRequired(backup.file)) =>
        \A password \in PasswordArgs :
            LET o == importKeyPair(backup.file, password)
            IN  /\ o.res = "throw"
                /\ o.err = InvalidFormat
                /\ o.ret = NULL

\* value is the manifest sealed under key: nonce, ciphertext and tag, the
\* ciphertext being the encryption of the whole JSON text
SealedManifest(value, manifest, key) ==
    /\ DOMAIN value = {"iv", "ct", "tag"}
    /\ value.iv \in Nonces
    /\ value.ct = GcmEncrypt(key, value.iv, JSONstringify(manifest))
    /\ value.tag = GcmTag(key, value.iv, value.ct)

\* The objects that the call with outcome o put or replaced
Written(o) ==
    {k \in DOMAIN o.after.storage :
        k \notin DOMAIN storage \/ o.after.storage[k] # storage[k]}

\* Each object the call wrote is the sealed manifest under the manifest key,
\* or a content blob of the bucket under files/<a new UUID>
WritesCiphertext(o) ==
    /\ DOMAIN storage \subseteq DOMAIN o.after.storage
    /\ \A k \in Written(o) :
          IF k = MANIFEST_KEY
          THEN /\ o.after.masterKeyCache # NULL
               /\ SealedManifest(o.after.storage[k], o.after.manifestCache,
                                 o.after.masterKeyCache)
          ELSE /\ k \in {FileKey(Uuid(n)) : n \in (uuidSeq + 1)..o.after.uuidSeq}
               /\ \E f \in DOMAIN storage \ {MANIFEST_KEY} :
                     o.after.storage[k] = storage[f]

\* C27: every value that a call puts into the bucket is ciphertext: under
\* the manifest key the whole manifest sealed under the master key, under a
\* files/<id> key a content blob that was fetched from the bucket, unchanged.
\* No plaintext manifest, file name, folder name or per-file key is written,
\* as a value or as part of an object key.
C27_OnlyCiphertextIsStored ==
    /\ EveryMutation(Here, WritesCiphertext)
    /\ \A k \in PrivateKeys, iv \in Nonces, io \in IOOutcomes :
          /\ WritesCiphertext(initializeManifest(Here, k, iv, io))
          /\ Written(unlockManifest(Here, k, io)) = {}
    /\ \A io \in IOOutcomes :
          /\ Written(syncManifest(Here, io)) = {}
          /\ Written(manifestExists(Here, io)) = {}
    /\ Written(lockManifest(Here)) = {}
    /\ Written(getManifest(Here)) = {}

\* A copy writes a content blob and the manifest
C27_Witness ==
    /\ ~NotUnlocked(Here)
    /\ \E iv \in Nonces, l \in IdLists, g \in FolderRefs :
          LET o == copyFilesToFolder(Here, l, g, [at |-> 0, op |-> "none"],
                                     iv, "ok")
          IN  /\ o.res = "ok"
              /\ MANIFEST_KEY \in Written(o)
              /\ Written(o) # {MANIFEST_KEY}
              /\ WritesCiphertext(o)

\* text is the JSON text of a manifest and of nothing more: the document
\* has the properties of a Manifest, its files those of an
\* EncryptedFileInfo, its folders those of a Folder
ManifestText(text) ==
    LET doc == text.text
    IN  /\ DOMAIN text = {"text"}
        /\ DOMAIN doc = {"version", "files", "folders", "createdAt",
                         "updatedAt"}
        /\ \A i \in 1..Len(doc.files) :
              DOMAIN doc.files[i] \subseteq
                  {"fileId", "fileName", "size", "mimeType", "uploadedAt",
                   "key", "nonce", "folderId", "isFavorite"}
        /\ \A i \in 1..Len(doc.folders) :
              DOMAIN doc.folders[i] \subseteq
                  {"id", "name", "parentId", "createdAt", "color"}

\* What s keeps outside the module's memory holds no master key: the
\* session storage has the manifest text and the flag, the bucket the
\* sealed manifest text and the files' contents
KeyNotPersisted(s) ==
    /\ DOMAIN s.sessionStorage \subseteq
           {SESSION_CACHE_KEY, SESSION_UNLOCKED_KEY}
    /\ SESSION_UNLOCKED_KEY \in DOMAIN s.sessionStorage =>
           s.sessionStorage[SESSION_UNLOCKED_KEY] = [str |-> "true"]
    /\ SESSION_CACHE_KEY \in DOMAIN s.sessionStorage =>
           ManifestText(s.sessionStorage[SESSION_CACHE_KEY])
    /\ \A k \in DOMAIN s.storage :
           IF k = MANIFEST_KEY
           THEN ManifestText(s.storage[k].ct.pt)
           ELSE \E f \in DOMAIN Contents : s.storage[k] = Contents[f]

KeepsKeyInMemory(o) == KeyNotPersisted(o.after)

\* C28: the master key exists only in the module's memory while the store
\* is unlocked: it is never written to the session storage or to the
\* bucket, it does not survive a reload of the page, and it is absent once
\* lockManifest has run.
C28_MasterKeyOnlyInMemory ==
    /\ KeyNotPersisted(Here)
    /\ EveryMutation(Here, KeepsKeyInMemory)
    /\ ~ghost.unlocked => masterKeyCache = NULL
    /\ lockManifest(Here).after.masterKeyCache = NULL
    /\ Reloaded(Here).masterKeyCache = NULL
    /\ getManifest(Reloaded(Here)).after.masterKeyCache = NULL

\* A store that was unlocked, so that the key was in memory and the session
\* storage held the manifest, has been locked
C28_Witness ==
    /\ HasBlob(Here)
    /\ ghost.phase = "locked"
    /\ ~ghost.unlocked
    /\ masterKeyCache = NULL
    /\ ghost.atLock # NULL
    /\ sessionStorage = <<>>

\* The pairs of entries of s's manifest that have different fileIds and
\* the same per-file key and nonce
SharingKey(s) ==
    LET files == s.manifestCache.files
    IN  {p \in (1..Len(files)) \X (1..Len(files)) :
            /\ files[p[1]].fileId # files[p[2]].fileId
            /\ files[p[1]].key = files[p[2]].key
            /\ files[p[1]].nonce = files[p[2]].nonce}

\* C29: every file has key material of its own: in every manifest the calls
\* can produce, no two entries with different fileIds carry the same
\* per-file key and nonce, the entries made by copyFilesToFolder included.
NoSharedKey(o) == SharingKey(o.after) = {}

C29_IndependentKeyMaterial ==
    Usable(Here) =>
        /\ SharingKey(Here) = {}
        /\ EveryMutation(Here, NoSharedKey)

\* C29, as the code has it: two entries with different fileIds carry the
\* same key and nonce only when one was made by copyFilesToFolder from the
\* other's content: one of the ids is a UUID that the copy drew, and the two
\* content objects are byte-identical.
SharedByCopyOnly(s) ==
    LET files == s.manifestCache.files
        drawn == {Uuid(n) : n \in 1..s.uuidSeq}
    IN  \A p \in SharingKey(s) :
            LET a == files[p[1]].fileId
                b == files[p[2]].fileId
            IN  /\ a \in drawn \/ b \in drawn
                /\ FileKey(a) \in DOMAIN s.storage
                /\ FileKey(b) \in DOMAIN s.storage
                /\ s.storage[FileKey(a)] = s.storage[FileKey(b)]

SharesByCopyOnly(o) == SharedByCopyOnly(o.after)

C29_KeySharedOnlyByCopies ==
    Usable(Here) =>
        /\ SharedByCopyOnly(Here)
        /\ EveryMutation(Here, SharesByCopyOnly)

\* The manifest holds a file and its copy, and a further copy is made
C29_Witness ==
    /\ ~NotUnlocked(Here)
    /\ SharingKey(Here) # {}
    /\ \E iv \in Nonces, l \in IdLists, g \in FolderRefs :
          LET o == copyFilesToFolder(Here, l, g, [at |-> 0, op |-> "none"],
                                     iv, "ok")
          IN  /\ o.res = "ok"
              /\ Cardinality(SharingKey(o.after)) > Cardinality(SharingKey(Here))

\* Every mutation that was started has completed, and every upload succeeded
Settled ==
    /\ inFlight.started > 0
    /\ inFlight.calls = <<>>
    /\ ~inFlight.failed

\* C30: within one session, when a second mutation starts while the upload
\* of the first is still in flight, then after both uploads have completed,
\* in either order, the stored manifest holds both changes and is equal to
\* the manifest in memory.
C30_OverlappedMutationsBothStored ==
    (Settled /\ inFlight.overlapped) => Agree(Here)

\* C30, as the code has it: each call uploads the text it took when it
\* began, and the upload that completes last is what the bucket keeps.
\* After all uploads have completed the memory and the session cache hold
\* every change; the stored manifest is the one sealed by the call whose
\* upload completed last, and is equal to the memory when that call is the
\* one that began last.
C30_LastCompletedUploadIsStored ==
    Settled =>
        /\ SameManifest(loadFromSessionCache(sessionStorage), manifestCache)
        /\ Remote(Here).err = "none"
        /\ SameManifest(Remote(Here).manifest, inFlight.snapshot)
        /\ inFlight.landed = inFlight.started => Agree(Here)

\* Two mutations overlapped and the upload of the first completed last: the
\* stored manifest lacks the second change, which the memory and the
\* session cache hold
C30_Witness ==
    /\ Settled
    /\ inFlight.overlapped
    /\ inFlight.started = 2
    /\ inFlight.landed = 1
    /\ SameManifest(loadFromSessionCache(sessionStorage), manifestCache)
    /\ ~SameManifest(Remote(Here).manifest, manifestCache)

\* C33: a mutation whose manifest upload fails leaves the in-memory
\* manifest as it was before the call, so that the memory, the session
\* cache and the stored manifest agree as they did before.
FailsWithoutChange(o) ==
    o.res = "throw" =>
        /\ o.after.manifestCache = manifestCache
        /\ Agree(Here) => Agree(o.after)

C33_FailedUploadLeavesMemory ==
    ~NotUnlocked(Here) => EveryMutation(Here, FailsWithoutChange)

\* C34: an initializeManifest whose upload rejects and an unlockManifest
\* whose download rejects or whose decryption fails change nothing: the
\* manifest in memory, the cached master key, the session storage with its
\* unlocked flag and the stored objects are those of before the call,
\* whether the store was locked or unlocked with another key.
C34_FailedOpenChangesNothing ==
    \A k \in PrivateKeys, io \in IOOutcomes :
        /\ \A iv \in Nonces :
              LET o == initializeManifest(Here, k, iv, io)
              IN  o.res = "throw" =>
                      o.after = Here
                      /\ isManifestUnlocked(o.after) = isManifestUnlocked(Here)
        /\ LET o == unlockManifest(Here, k, io)
           IN  o.res = "throw" =>
                   o.after = Here
                   /\ isManifestUnlocked(o.after) = isManifestUnlocked(Here)

\* A store unlocked with one key on which an unlock with another key fails
\* at the decryption, an unlock fails at the download and an initialize
\* fails at the upload
C34_Witness ==
    /\ isManifestUnlocked(Here)
    /\ masterKeyCache # NULL
    /\ \E k \in PrivateKeys :
          /\ deriveManifestKeyFromPrivateKey(k) # masterKeyCache
          /\ unlockManifest(Here, k, "ok").res = "throw"
          /\ unlockManifest(Here, k, "ok").err = "AuthenticationFailure"
          /\ unlockManifest(Here, k, "TransportError").res = "throw"
          /\ \E iv \in Nonces :
                initializeManifest(Here, k, iv, "TransportError").res = "throw"

\* A locked store on which an unlock and an initialize fail
C34_WitnessLocked ==
    /\ manifestCache = NULL
    /\ masterKeyCache = NULL
    /\ ~isManifestUnlocked(Here)
    /\ HasBlob(Here)
    /\ \E k \in PrivateKeys :
          /\ unlockManifest(Here, k, "ok").res = "throw"
          /\ \E iv \in Nonces :
                initializeManifest(Here, k, iv, "TransportError").res = "throw"

\* C35: whenever isManifestUnlocked() is true the master key is cached, so
\* that no mutation issued in such a state fails with the state error; this
\* includes the states after a page reload and after getManifest() has
\* restored the manifest from the session storage.
IsNotStateError(o) == o.err # "StateError"

C35_UnlockedImpliesMasterKey ==
    isManifestUnlocked(Here) =>
        /\ getMasterKey(Here) # NULL
        /\ EveryMutation(Here, IsNotStateError)

----------------------------------------------------------------------------
(* Folder trees: createFolder, renameFolder and deleteFolder called one    *)
(* after the other on a store that starts with the empty manifest.  A      *)
(* parentId argument is any text the caller can know when it calls: none,  *)
(* an id no folder has, or an id that crypto.randomUUID() has returned.    *)

\* The number of folders ever created
MaxFolders == 3

\* The store after initializeManifest on an empty bucket
InitFolders ==
    LET fresh == [manifestCache |-> NULL, masterKeyCache |-> NULL,
                  sessionStorage |-> <<>>, storage |-> Contents,
                  clock |-> 0, uuidSeq |-> 0]
        o == initializeManifest(fresh, PriorKey, 1, "ok")
    IN  /\ manifestCache = o.after.manifestCache
        /\ masterKeyCache = o.after.masterKeyCache
        /\ sessionStorage = o.after.sessionStorage
        /\ storage = o.after.storage
        /\ clock = o.after.clock
        /\ uuidSeq = o.after.uuidSeq
        /\ peer = [manifestCache |-> NULL, masterKeyCache |-> NULL,
                   sessionStorage |-> <<>>]
        /\ backup = NoBackup
        /\ page = NULL
        /\ inFlight = NoneInFlight
        /\ ghost = [initKey |-> HexToBytes(PriorKey), unlocked |-> TRUE,
                    phase |-> "none", atLock |-> NULL, changes |-> 0,
                    tampered |-> FALSE]

\* The ids crypto.randomUUID() has returned so far
DrawnIds(s) == {Uuid(n) : n \in 1..s.uuidSeq}

\* The parentId arguments of a createFolder call
ParentArgs(s) == FolderRefs \cup DrawnIds(s)

TreeCreateFolder ==
    \E n \in FolderNames, p \in ParentArgs(Here),
       iv \in Nonces, io \in IOOutcomes :
        LET o == createFolder(Here, n, p, Undefined, iv, io)
        IN  /\ uuidSeq < MaxFolders
            /\ Becomes(o.after)
            /\ ghost' = ghost

TreeRenameFolder ==
    \E g \in DrawnIds(Here), n \in NewFolderNames,
       iv \in Nonces, io \in IOOutcomes :
        LET o == renameFolder(Here, g, n, iv, io)
        IN  /\ Becomes(o.after)
            /\ ghost' = ghost

TreeDeleteFolder ==
    \E g \in DrawnIds(Here), d \in BOOLEAN,
       iv \in Nonces, io \in IOOutcomes :
        LET o == deleteFolder(Here, g, d, iv, io)
        IN  /\ Becomes(o.after)
            /\ ghost' = ghost

NextFolders == TreeCreateFolder \/ TreeRenameFolder \/ TreeDeleteFolder

SpecFolders == InitFolders /\ [][NextFolders]_vars

\* The folders of a manifest (the property is optional, line 35)
FoldersOf(manifest) ==
    IF "folders" \in DOMAIN manifest THEN manifest.folders ELSE <<>>

\* Following parentId from the folder id for at most n steps leads to target
RECURSIVE LeadsUp(_, _, _, _)
LeadsUp(folders, id, target, n) ==
    /\ n > 0
    /\ LET i == FindFolder(folders, id)
       IN  /\ i # 0
           /\ LET p == Prop(folders[i], "parentId")
              IN  p = target \/ LeadsUp(folders, p, target, n - 1)

\* No folder of the manifest is its own ancestor
Acyclic(manifest) ==
    LET folders == FoldersOf(manifest)
    IN  \A i \in 1..Len(folders) :
            /\ Prop(folders[i], "parentId") # folders[i].id
            /\ ~LeadsUp(folders, Prop(folders[i], "parentId"),
                        folders[i].id, Len(folders))

\* C36: starting from the empty manifest, no sequence of createFolder,
\* renameFolder and deleteFolder calls, with any parentId arguments and ids
\* generated fresh, makes a folder its own ancestor: the parentId relation
\* stays acyclic in memory and in what the stored manifest decrypts to.
C36_FoldersStayAcyclic ==
    /\ manifestCache # NULL => Acyclic(manifestCache)
    /\ Remote(Here).err = "none" => Acyclic(Remote(Here).manifest)

\* Three folders nested in one another, the outer one renamed
C36_Witness ==
    /\ manifestCache # NULL
    /\ Len(FoldersOf(manifestCache)) = 3
    /\ \E i, j, k \in 1..3 :
          /\ Prop(manifestCache.folders[i], "parentId")
                = manifestCache.folders[j].id
          /\ Prop(manifestCache.folders[j], "parentId")
                = manifestCache.folders[k].id
          /\ manifestCache.folders[k].name \in NewFolderNames

\* Every parentId of the manifest names a folder of the manifest
ParentsExist(manifest) ==
    LET folders == FoldersOf(manifest)
    IN  \A i \in 1..Len(folders) :
            Prop(folders[i], "parentId") # Undefined =>
                FindFolder(folders, Prop(folders[i], "parentId")) # 0

\* C37: when every folder was created under a parent that existed, every
\* parentId names a folder that is still in the manifest; in particular,
\* after deleteFolder(F), with either value of deleteContents, no remaining
\* folder has parentId F.
C37_ParentIdRefersToFolder ==
    (manifestCache # NULL /\ ParentsExist(manifestCache)) =>
        \A g \in DrawnIds(Here), d \in BOOLEAN,
           iv \in Nonces, io \in IOOutcomes :
            LET o == deleteFolder(Here, g, d, iv, io)
                folders == FoldersOf(o.after.manifestCache)
            IN  /\ \A i \in 1..Len(folders) :
                       Prop(folders[i], "parentId") # g
                /\ ParentsExist(o.after.manifestCache)

\* Two objects differ at most in property p
SameBut(a, b, p) ==
    /\ DOMAIN a \ {p} = DOMAIN b \ {p}
    /\ \A q \in DOMAIN a \ {p} : a[q] = b[q]

\* The manifests before and after differ at most in updatedAt and in
\* property p of the file at index i: the other files, the folders, version
\* and createdAt are the same, and the files are in the same order
OnlyFileChanged(before, after, i, p) ==
    /\ \A q \in DOMAIN before \ {"updatedAt", "files"} : after[q] = before[q]
    /\ DOMAIN after = DOMAIN before
    /\ Len(after.files) = Len(before.files)
    /\ \A j \in 1..Len(before.files) :
          IF j = i THEN SameBut(before.files[j], after.files[j], p)
          ELSE after.files[j] = before.files[j]

\* The same for property p of the folder at index i
OnlyFolderChanged(before, after, i, p) ==
    /\ \A q \in DOMAIN before \ {"updatedAt", "folders"} :
          after[q] = before[q]
    /\ DOMAIN after = DOMAIN before
    /\ Len(after.folders) = Len(before.folders)
    /\ \A j \in 1..Len(before.folders) :
          IF j = i THEN SameBut(before.folders[j], after.folders[j], p)
          ELSE after.folders[j] = before.folders[j]

\* C38: each single-target mutation applies exactly one logical change:
\* renameFile changes only fileName of its file, renameFolder only name of
\* its folder, moveFileToFolder only folderId of its file and
\* toggleFileFavorite only isFavorite of its file; apart from updatedAt the
\* other files and folders, version and createdAt are unchanged and the
\* order of files and folders is kept.
C38_OneLogicalChange ==
    ~NotUnlocked(Here) =>
      \A iv \in Nonces, io \in IOOutcomes :
        /\ \A f \in KnownIds :
              LET i == FindFile(manifestCache.files, f)
              IN  i # 0 =>
                    /\ \A n \in NewFileNames :
                          LET o == renameFile(Here, f, n, iv, io)
                          IN  /\ OnlyFileChanged(manifestCache,
                                     o.after.manifestCache, i, "fileName")
                              /\ o.after.manifestCache.files[i].fileName = n
                    /\ \A g \in FolderRefs :
                          LET o == moveFileToFolder(Here, f, g, iv, io)
                          IN  /\ OnlyFileChanged(manifestCache,
                                     o.after.manifestCache, i, "folderId")
                              /\ Prop(o.after.manifestCache.files[i],
                                      "folderId") = g
                    /\ LET o == toggleFileFavorite(Here, f, iv, io)
                       IN  OnlyFileChanged(manifestCache,
                               o.after.manifestCache, i, "isFavorite")
        /\ \A g \in FolderIds, n \in NewFolderNames :
              LET i == FindFolder(FoldersOf(manifestCache), g)
                  o == renameFolder(Here, g, n, iv, io)
              IN  i # 0 =>
                    /\ OnlyFolderChanged(manifestCache,
                           o.after.manifestCache, i, "name")
                    /\ o.after.manifestCache.folders[i].name = n

\* Two files and a folder in memory, where renaming the second file, moving
\* it, marking it favorite and renaming the folder each change the manifest
C38_Witness ==
    /\ ~NotUnlocked(Here)
    /\ Len(manifestCache.files) = 2
    /\ Len(FoldersOf(manifestCache)) = 1
    /\ \E f \in KnownIds, n \in NewFileNames, g \in FolderRefs :
          /\ FindFile(manifestCache.files, f) = 2
          /\ renameFile(Here, f, n, 1, "ok").after.manifestCache.files
                # manifestCache.files
          /\ moveFileToFolder(Here, f, g, 1, "ok").after.manifestCache.files
                # manifestCache.files
          /\ toggleFileFavorite(Here, f, 1, "ok").after.manifestCache.files
                # manifestCache.files
    /\ \E g \in FolderIds, n \in NewFolderNames :
          renameFolder(Here, g, n, 1, "ok").after.manifestCache.folders
              # manifestCache.folders

----------------------------------------------------------------------------
(* Calls suspended at an await while others run.  syncManifest and         *)
(* unlockManifest are suspended at the download (manifest.ts:186, 160) and *)
(* at the decryption (187, 161); syncManifest reads masterKeyCache when    *)
(* the download has settled (187).  A mutation is suspended, its change    *)
(* made in memory, until its upload settles.  Here inFlight holds          *)
(*   calls   the suspended calls                                           *)
(*   begun   the number of calls begun                                     *)
(*   added   the files whose addFileToManifest has returned                *)
(*   locked  lockManifest has returned and no unlockManifest has been      *)
(*           started since                                                 *)

\* The number of calls begun
MaxCalls == 3

NonePending == [calls |-> <<>>, begun |-> 0, added |-> {}, locked |-> FALSE]

\* A call suspended at the await named by at
Pending(kind, at, key, data, fileId) ==
    [kind |-> kind, at |-> at, key |-> key, data |-> data, fileId |-> fileId]

\* The suspended calls without the i-th
Without(calls, i) ==
    [j \in 1..(Len(calls) - 1) |-> calls[IF j < i THEN j ELSE j + 1]]

\* The store is open, as in InitOverlap, and no call is suspended
InitAwait ==
    \E bucket \in Buckets :
        LET fresh == [manifestCache |-> NULL, masterKeyCache |-> NULL,
                      sessionStorage |-> <<>>, storage |-> bucket,
                      clock |-> 0, uuidSeq |-> 0]
            o == IF MANIFEST_KEY \in DOMAIN bucket
                 THEN unlockManifest(fresh, PriorKey, "ok")
                 ELSE initializeManifest(fresh, PriorKey, 1, "ok")
        IN  /\ manifestCache = o.after.manifestCache
            /\ masterKeyCache = o.after.masterKeyCache
            /\ sessionStorage = o.after.sessionStorage
            /\ storage = o.after.storage
            /\ clock = o.after.clock
            /\ uuidSeq = o.after.uuidSeq
            /\ peer = [manifestCache |-> NULL, masterKeyCache |-> NULL,
                       sessionStorage |-> <<>>]
            /\ backup = NoBackup
            /\ page = NULL
            /\ inFlight = NonePending
            /\ ghost = [initKey |-> HexToBytes(PriorKey), unlocked |-> TRUE,
                        phase |-> "none", atLock |-> NULL, changes |-> 0,
                        tampered |-> FALSE]

\* No mutation is suspended: the caller awaits one before it issues the next
NoMutationPending ==
    \A i \in 1..Len(inFlight.calls) : inFlight.calls[i].kind # "mutation"

\* addFileToManifest up to its upload (lines 252-262)
BeginAddFile ==
    \E f \in FileIds, iv \in Nonces :
        LET o == addFileToManifest(Here, FileInfo(f), iv, "TransportError")
        IN  /\ inFlight.begun < MaxCalls
            /\ NoMutationPending
            /\ o.err = "TransportError"
            /\ manifestCache' = o.after.manifestCache
            /\ inFlight' = [inFlight EXCEPT
                  !.calls = Append(@, Pending("mutation", "upload", NULL,
                                encryptManifest(o.after.manifestCache,
                                                masterKeyCache, iv), f)),
                  !.begun = @ + 1]
            /\ UNCHANGED <<masterKeyCache, sessionStorage, storage, clock,
                           uuidSeq, peer, page, backup, ghost>>

\* syncManifest up to its download (lines 179-186)
BeginSync ==
    /\ inFlight.begun < MaxCalls
    /\ masterKeyCache # NULL
    /\ inFlight' = [inFlight EXCEPT
          !.calls = Append(@, Pending("sync", "download", NULL, NULL, NULL)),
          !.begun = @ + 1]
    /\ UNCHANGED <<manifestCache, masterKeyCache, sessionStorage, storage,
                   clock, uuidSeq, peer, page, backup, ghost>>

\* The download of a syncManifest or unlockManifest settles (186, 160): on
\* an error the call ends (184-196 catch it, 160 rejects), otherwise the
\* decryption starts, syncManifest passing the masterKeyCache of that moment
Downloaded ==
    \E i \in 1..Len(inFlight.calls), io \in IOOutcomes :
        LET call == inFlight.calls[i]
            dl == downloadFromStorage(storage, MANIFEST_KEY, io)
            key == IF call.kind = "sync" THEN masterKeyCache ELSE call.key
        IN  /\ call.at = "download"
            /\ inFlight' = [inFlight EXCEPT !.calls =
                  IF dl.err # "none" THEN Without(@, i)
                  ELSE [@ EXCEPT ![i] = Pending(call.kind, "decrypt", key,
                                                dl.data, NULL)]]
            /\ UNCHANGED <<manifestCache, masterKeyCache, sessionStorage,
                           storage, clock, uuidSeq, peer, page, backup, ghost>>

\* The decryption settles (187, 161) and the call runs to its end (190-191,
\* 164-170); crypto.subtle.decrypt rejects when the key is null
Decrypted ==
    \E i \in 1..Len(inFlight.calls) :
        LET call == inFlight.calls[i]
            dec == IF call.key = NULL THEN [err |-> "TypeError"]
                   ELSE decryptManifest(call.data, call.key)
        IN  /\ call.at = "decrypt"
            /\ inFlight' = [inFlight EXCEPT !.calls = Without(@, i)]
            /\ IF dec.err # "none"
               THEN UNCHANGED <<manifestCache, masterKeyCache, sessionStorage>>
               ELSE /\ manifestCache' = dec.manifest
                    /\ masterKeyCache' = IF call.kind = "unlock" THEN call.key
                                         ELSE masterKeyCache
                    /\ sessionStorage' =
                          IF call.kind = "unlock"
                          THEN UnlockedSession(sessionStorage, dec.manifest)
                          ELSE saveToSessionCache(sessionStorage, dec.manifest)
            /\ UNCHANGED <<storage, clock, uuidSeq, peer, page, backup, ghost>>

\* saveToSessionCache(manifestCache) with what the memory holds;
\* JSON.stringify(null) is the text null
SavedFromMemory(ss, manifest) ==
    IF manifest = NULL THEN setItem(ss, SESSION_CACHE_KEY, [text |-> NULL])
    ELSE saveToSessionCache(ss, manifest)

\* The upload of a mutation settles (262) and the call runs to its end (265)
UploadSettled ==
    \E i \in 1..Len(inFlight.calls), io \in IOOutcomes :
        LET call == inFlight.calls[i]
        IN  /\ call.at = "upload"
            /\ storage' = IF io = "ok"
                          THEN Uploaded(storage, MANIFEST_KEY, call.data)
                          ELSE storage
            /\ sessionStorage' =
                  IF io = "ok" THEN SavedFromMemory(sessionStorage,
                                                    manifestCache)
                  ELSE sessionStorage
            /\ inFlight' = [inFlight EXCEPT
                  !.calls = Without(@, i),
                  !.added = IF io = "ok" THEN @ \cup {call.fileId} ELSE @]
            /\ UNCHANGED <<manifestCache, masterKeyCache, clock, uuidSeq,
                           peer, page, backup, ghost>>

NextSync ==
    \/ BeginAddFile
    \/ BeginSync
    \/ Downloaded
    \/ Decrypted
    \/ UploadSettled
    \/ Tick

SpecSync == InitAwait /\ [][NextSync]_vars

\* unlockManifest up to its download (lines 157-160)
BeginUnlock ==
    \E k \in PrivateKeys :
        /\ inFlight.begun < MaxCalls
        /\ inFlight' = [inFlight EXCEPT
              !.calls = Append(@, Pending("unlock", "download",
                            deriveManifestKeyFromPrivateKey(k), NULL, NULL)),
              !.begun = @ + 1,
              !.locked = FALSE]
        /\ UNCHANGED <<manifestCache, masterKeyCache, sessionStorage, storage,
                       clock, uuidSeq, peer, page, backup, ghost>>

\* lockManifest() while calls are suspended
LockWhilePending ==
    LET o == lockManifest(Here)
    IN  /\ ~inFlight.locked
        /\ manifestCache' = o.after.manifestCache
        /\ masterKeyCache' = o.after.masterKeyCache
        /\ sessionStorage' = o.after.sessionStorage
        /\ inFlight' = [inFlight EXCEPT !.locked = TRUE]
        /\ UNCHANGED <<storage, clock, uuidSeq, peer, page, backup, ghost>>

NextLock ==
    \/ BeginAddFile
    \/ BeginSync
    \/ BeginUnlock
    \/ Downloaded
    \/ Decrypted
    \/ UploadSettled
    \/ LockWhilePending
    \/ Tick

SpecLock == InitAwait /\ [][NextLock]_vars

\* The manifest has a file with this id
HasFile(manifest, f) == FindFile(manifest.files, f) # 0

\* C31: a syncManifest that overlaps a mutation never drops it: once both
\* have completed, the manifest in memory contains the mutation's change,
\* and the manifest a later mutation uploads contains it as well.
C31_SyncKeepsOverlappedMutation ==
    (inFlight.calls = <<>> /\ ~NotUnlocked(Here)) =>
        \A f \in inFlight.added :
            /\ HasFile(manifestCache, f)
            /\ \A n \in FolderNames, p \in FolderRefs, iv \in Nonces :
                  LET o == createFolder(Here, n, p, Undefined, iv, "ok")
                  IN  /\ Remote(o.after).err = "none"
                      /\ HasFile(Remote(o.after).manifest, f)

\* C32: once lockManifest has returned, no decrypted manifest and no master
\* key reappears in memory or in the session storage until a new
\* unlockManifest call is started, whatever calls were suspended at a
\* download, a decryption or an upload when it ran.
C32_LockIsFinal ==
    inFlight.locked =>
        /\ manifestCache = NULL
        /\ masterKeyCache = NULL
        /\ loadFromSessionCache(sessionStorage) = NULL
        /\ ~isManifestUnlocked(Here)

----------------------------------------------------------------------------
(* The files page.  FilesPage renders ManifestUnlock while a storage is    *)
(* configured and its manifestUnlocked is false, and the file manager when *)
(* it is true; StorageSettings saves and clears the configuration.  A      *)
(* handler runs with the renders and effects that follow it; the awaits of *)
(* ManifestUnlock (manifestExists, unlockManifest, initializeManifest) are *)
(* steps of their own.  A ManifestUnlock that is unmounted while it awaits *)
(* runs on (view.mounted = FALSE), and no second one is mounted before it  *)
(* has ended.  The variable storage is the bucket of configuration "A",    *)
(* page.bucketB that of configuration "B"; page.openedWith records the     *)
(* configuration of the last unlockManifest or initializeManifest that     *)
(* succeeded ("null" after lockManifest).                                  *)

\* The storage configurations the user enters
Configs == {"A", "B"}

\* localStorage.getItem(`key_pair_${user.id}`): a private key, or "null"
KeyData == {"null", "0a", "0b"}

\* ManifestUnlock, not rendered
NoView ==
    [mounted |-> FALSE, at |-> "unmounted", isLoading |-> FALSE,
     error |-> "null", manifestExists_ |-> FALSE, config |-> "null"]

\* ManifestUnlock after its first render and its effect: checkManifest
\* awaits manifestExists(config)
MountedView(config) ==
    [mounted |-> TRUE, at |-> "checkManifest", isLoading |-> TRUE,
     error |-> "null", manifestExists_ |-> FALSE, config |-> config]

\* ManifestUnlock is no longer rendered
Unmounted(view) ==
    IF view.at \in {"idle", "unmounted"} THEN NoView
    ELSE [view EXCEPT !.mounted = FALSE]

\* The page is rendered, with ManifestUnlock when shown
Rendered(shown, view, config) ==
    IF shown THEN IF view.mounted THEN view ELSE MountedView(config)
    ELSE Unmounted(view)

\* No ManifestUnlock has to be mounted while an unmounted one runs on
CanRender(shown, view) ==
    (shown /\ ~view.mounted) => view.at = "unmounted"

\* An async function of ManifestUnlock has ended
Ended(view) == IF view.mounted THEN view ELSE NoView

\* isStorageConfigured()
isStorageConfigured(config) == config # "null"

\* The tab with the bucket of a configuration
InConfig(config) ==
    [Here EXCEPT !.storage = IF config = "B" THEN page.bucketB ELSE storage]

\* The page has just been loaded with storage "A" configured: module memory
\* and session storage are empty, the effects of FilesPage have run and
\* ManifestUnlock is mounted
InitPage ==
    /\ manifestCache = NULL
    /\ masterKeyCache = NULL
    /\ sessionStorage = <<>>
    /\ storage \in Buckets
    /\ clock = 0
    /\ uuidSeq = 0
    /\ peer = [manifestCache |-> NULL, masterKeyCache |-> NULL,
               sessionStorage |-> <<>>]
    /\ backup = NoBackup
    /\ inFlight = NoneInFlight
    /\ ghost = [initKey |-> IF MANIFEST_KEY \in DOMAIN storage
                            THEN HexToBytes(PriorKey) ELSE <<>>,
                unlocked |-> FALSE, phase |-> "none",
                atLock |-> NULL, changes |-> 0, tampered |-> FALSE]
    /\ \E bucketB \in Buckets, keyData \in KeyData :
          page = [config |-> "A", bucketB |-> bucketB, keyData |-> keyData,
                  showSettings |-> FALSE, storageConfigured |-> TRUE,
                  manifestUnlocked |-> FALSE, openedWith |-> "null",
                  view |-> MountedView("A")]

\* The module and the buckets after a call made with a configuration
CalledInConfig(config, after) ==
    /\ manifestCache' = after.manifestCache
    /\ masterKeyCache' = after.masterKeyCache
    /\ sessionStorage' = after.sessionStorage
    /\ storage' = IF config = "B" THEN storage ELSE after.storage
    /\ UNCHANGED <<clock, uuidSeq, peer, backup, inFlight, ghost>>

\* The bucket of configuration "B" after such a call
BucketB(config, after) ==
    IF config = "B" THEN after.storage ELSE page.bucketB

\* handleManifestUnlocked, with the render that follows
Opened(config, after) ==
    [page EXCEPT !.manifestUnlocked = TRUE,
                 !.openedWith = config,
                 !.bucketB = BucketB(config, after),
                 !.view = NoView]

\* checkManifest after manifestExists has settled (lines 525-538), with
\* attemptUnlock up to its unlockManifest (541-553)
CheckSettles ==
    \E io \in IOOutcomes :
        LET view == page.view
            exists == manifestExists(InConfig(view.config), io).ret
        IN  /\ view.at = "checkManifest"
            /\ page' = [page EXCEPT !.view =
                  IF exists /\ page.keyData # "null"
                  THEN [view EXCEPT !.manifestExists_ = TRUE,
                                    !.at = "attemptUnlock"]
                  ELSE Ended([view EXCEPT
                                !.manifestExists_ = exists,
                                !.error = IF exists THEN "Private key not found"
                                          ELSE "null",
                                !.isLoading = FALSE,
                                !.at = "idle"])]
            /\ UNCHANGED <<manifestCache, masterKeyCache, sessionStorage,
                           storage, clock, uuidSeq, peer, backup, inFlight,
                           ghost>>

\* attemptUnlock after unlockManifest has settled (lines 553-558), and the
\* end of checkManifest (538)
UnlockSettles ==
    \E io \in IOOutcomes :
        LET view == page.view
            o == unlockManifest(InConfig(view.config), page.keyData, io)
        IN  /\ view.at = "attemptUnlock"
            /\ CalledInConfig(view.config, o.after)
            /\ page' = IF o.res = "ok" THEN Opened(view.config, o.after)
                       ELSE [page EXCEPT !.view =
                               Ended([view EXCEPT
                                        !.error = "Manifest keys don't match",
                                        !.isLoading = FALSE,
                                        !.at = "idle"])]

\* ManifestUnlock shows the initialize button, enabled (lines 594-608)
InitializeOffered ==
    /\ page.view.mounted
    /\ ~page.view.manifestExists_
    /\ page.view.error = "null"
    /\ ~page.view.isLoading

\* handleInitialize up to its initializeManifest (lines 562-579), with the
\* configuration of the render whose button was clicked
ClickInitialize ==
    /\ InitializeOffered
    /\ page' = [page EXCEPT !.view =
          IF page.keyData = "null"
          THEN [@ EXCEPT !.error = "Private key not found"]
          ELSE [@ EXCEPT !.isLoading = TRUE, !.at = "handleInitialize",
                         !.config = page.config]]
    /\ UNCHANGED <<manifestCache, masterKeyCache, sessionStorage, storage,
                   clock, uuidSeq, peer, backup, inFlight, ghost>>

\* handleInitialize after initializeManifest has settled (lines 579-585)
InitializeSettles ==
    \E iv \in Nonces, io \in IOOutcomes :
        LET view == page.view
            o == initializeManifest(InConfig(view.config), page.keyData,
                                    iv, io)
        IN  /\ view.at = "handleInitialize"
            /\ CalledInConfig(view.config, o.after)
            /\ page' = IF o.res = "ok" THEN Opened(view.config, o.after)
                       ELSE [page EXCEPT !.view =
                               Ended([view EXCEPT
                                        !.error = "Failed to initialize",
                                        !.isLoading = FALSE,
                                        !.at = "idle"])]

\* The effect of FilesPage on showSettings (part_002 lines 46-49) and the
\* render that follows
AfterEffect(pg) ==
    LET configured == isStorageConfigured(pg.config)
        unlocked == isManifestUnlocked(Here)
    IN  [pg EXCEPT !.storageConfigured = configured,
                   !.manifestUnlocked = unlocked,
                   !.view = Rendered(configured /\ ~unlocked, @, pg.config)]

\* The settings button: setShowSettings(true)
OpenSettings ==
    /\ ~page.showSettings
    /\ CanRender(isStorageConfigured(page.config) /\ ~isManifestUnlocked(Here),
                 page.view)
    /\ page' = AfterEffect([page EXCEPT !.showSettings = TRUE])
    /\ UNCHANGED <<manifestCache, masterKeyCache, sessionStorage, storage,
                   clock, uuidSeq, peer, backup, inFlight, ghost>>

\* onClose of the dialog: setShowSettings(false)
CloseSettings ==
    /\ page.showSettings
    /\ CanRender(isStorageConfigured(page.config) /\ ~isManifestUnlocked(Here),
                 page.view)
    /\ page' = AfterEffect([page EXCEPT !.showSettings = FALSE])
    /\ UNCHANGED <<manifestCache, masterKeyCache, sessionStorage, storage,
                   clock, uuidSeq, peer, backup, inFlight, ghost>>

\* handleSave of StorageSettings (part_003 lines 747-756):
\* saveStorageConfig, handleConfigSaved (part_002 lines 62-65) and onClose
\* in one render, in which ManifestUnlock is shown, then the effect
SaveConfig ==
    \E config \in Configs :
        LET saved == [page EXCEPT
                        !.config = config,
                        !.storageConfigured = isStorageConfigured(config),
                        !.manifestUnlocked = FALSE,
                        !.showSettings = FALSE,
                        !.view = Rendered(TRUE, @, config)]
        IN  /\ page.showSettings
            /\ CanRender(TRUE, page.view)
            /\ page' = AfterEffect(saved)
            /\ UNCHANGED <<manifestCache, masterKeyCache, sessionStorage,
                           storage, clock, uuidSeq, peer, backup, inFlight,
                           ghost>>

\* handleClear of StorageSettings (part_003 lines 758-771):
\* clearStorageConfig and handleConfigSaved; the dialog stays open
ClearConfig ==
    /\ page.showSettings
    /\ page.config # "null"
    /\ page' = [page EXCEPT !.config = "null",
                            !.storageConfigured = FALSE,
                            !.manifestUnlocked = FALSE,
                            !.view = Rendered(FALSE, @, "null")]
    /\ UNCHANGED <<manifestCache, masterKeyCache, sessionStorage, storage,
                   clock, uuidSeq, peer, backup, inFlight, ghost>>

\* handleLockManifest (part_002 lines 72-75), offered while the page shows
\* the manifest as unlocked
LockPage ==
    LET o == lockManifest(Here)
    IN  /\ page.manifestUnlocked
        /\ CanRender(page.storageConfigured, page.view)
        /\ manifestCache' = o.after.manifestCache
        /\ masterKeyCache' = o.after.masterKeyCache
        /\ sessionStorage' = o.after.sessionStorage
        /\ page' = [page EXCEPT
                      !.manifestUnlocked = FALSE,
                      !.openedWith = "null",
                      !.view = Rendered(page.storageConfigured, @,
                                        page.config)]
        /\ UNCHANGED <<storage, clock, uuidSeq, peer, backup, inFlight,
                       ghost>>

NextPage ==
    \/ CheckSettles
    \/ UnlockSettles
    \/ ClickInitialize
    \/ InitializeSettles
    \/ OpenSettings
    \/ CloseSettings
    \/ SaveConfig
    \/ ClearConfig
    \/ LockPage

SpecPage == InitPage /\ [][NextPage]_vars

\* C39: in ManifestUnlock the initialize action, which overwrites the
\* remote manifest, is offered only when no manifest blob exists in the
\* configured storage: with a manifest present, a successful unlock, a
\* failed unlock and a failed existence check all end unlocked or on the
\* mismatch error, never on the initialize button.
C39_InitializeOnlyWithoutManifest ==
    (InitializeOffered /\ page.config # "null") =>
        ~HasBlob(InConfig(page.config))

\* C40: after the storage configuration is saved or cleared while a
\* manifest is unlocked, the page does not present the manifest as
\* unlocked until an unlock or initialize has completed against the new
\* configuration: the manifest and master key in use were opened with the
\* configuration in use.
C40_UnlockedOnlyWithItsConfig ==
    (page.storageConfigured /\ page.manifestUnlocked) =>
        /\ isManifestUnlocked(Here)
        /\ page.openedWith = page.config

====
